---------------------------- MODULE Spec2Model ----------------------------
(***************************************************************************)
(* Model of the Luau playground WASM bindings (wasm/src/playground.cpp):   *)
(* the module store, the two module-name resolvers, the value serializer,  *)
(* the execution session (luau_execute with its print/require built-ins)   *)
(* and the lazily constructed analysis controller.                         *)
(*                                                                         *)
(* Strings the code inspects character by character (module names, the     *)
(* transcript) are sequences of one-character strings.  Source texts are   *)
(* opaque and are plain strings.                                           *)
(***************************************************************************)
EXTENDS Integers, Sequences, FiniteSets, TLC

VARIABLES
    g_modules,        \* g_modules: module key -> source text
    g_resultBuffer,   \* the structured result of the last public operation
    escaped,          \* TRUE once a C++ exception has left a public operation
    lastOp,           \* name of the public operation / callback that ran last
    opCount,          \* number of public operations called so far
    \* ---- execution session
    g_outputBuffer,   \* plain text transcript
    g_printCalls,     \* one serialized snapshot per print call
    L,                \* the lua_State owned by luau_execute
    pc,               \* position of luau_execute: "idle" or "running" (in lua_pcall)
    callNo,           \* number of luau_execute calls started so far
    observed,         \* what the script's last global read returned
    effects,          \* <<call, what>>: what each call's script did so far
    emitted,          \* argument lists of the print calls of this execution
    seenStacks,       \* the visited stacks of the last print call, per argument
    heap,             \* the tables of the running script, by identity
    \* ---- resolvers
    resolved,         \* result of the last name resolution
    \* ---- analysis controller
    g_frontend,       \* 0 when null, else the number of the constructed instance
    frontendCtorCount,\* how many Luau::Frontend objects were constructed
    sources,          \* g_fileResolver->sources
    configMode,       \* g_configResolver->config.mode
    g_mode,
    g_useNewSolver,
    FFlagLuauSolverV2,
    useNewLuauSolver, \* g_frontend->useNewLuauSolver
    sourceNodes,      \* Frontend::sourceNodes: module -> dirty flags
    moduleResolver,   \* Frontend::moduleResolver: module -> checked module
    moduleResolverForAutocomplete,
    frontendCalls     \* what the last operation did on the analysis objects, in order

storeVars    == <<g_modules, g_resultBuffer, escaped, lastOp, opCount>>
execVars     == <<g_outputBuffer, g_printCalls, L, pc, callNo, observed,
                  effects, emitted, seenStacks>>
analysisVars == <<g_frontend, frontendCtorCount, sources, configMode, g_mode,
                  g_useNewSolver, FFlagLuauSolverV2, useNewLuauSolver,
                  sourceNodes, moduleResolver, moduleResolverForAutocomplete,
                  frontendCalls>>
vars == <<storeVars, execVars, heap, resolved, analysisVars>>

-----------------------------------------------------------------------------
(* Strings *)

EXT_LUAU == <<".", "l", "u", "a", "u">>
EXT_LUA  == <<".", "l", "u", "a">>

DOT_SLASH == <<".", "/">>
SLASH     == <<"/">>

EmptyMap == [x \in {} |-> x]

\* F applied to the value of v, which is computed once.
With(v, F(_)) == CHOOSE r \in {F(x) : x \in {v}} : TRUE

\* m with key k set to v (std::unordered_map::operator[] followed by assignment)
MapPut(m, k, v) == [x \in (DOMAIN m) \cup {k} |-> IF x = k THEN v ELSE m[x]]

RECURSIVE StripDotSlash(_)
StripDotSlash(s) ==
    IF Len(s) >= 2 /\ s[1] = "." /\ s[2] = "/"
    THEN StripDotSlash(SubSeq(s, 3, Len(s)))
    ELSE s

RECURSIVE StripSlash(_)
StripSlash(s) ==
    IF Len(s) >= 1 /\ s[1] = "/"
    THEN StripSlash(SubSeq(s, 2, Len(s)))
    ELSE s

normalizeModulePath(path) == StripSlash(StripDotSlash(path))

\* std::string::rfind('.'): the last position holding '.', 0 for npos
rfindDot(s) ==
    LET hits == {i \in 1..Len(s) : s[i] = "."}
    IN  IF hits = {} THEN 0 ELSE CHOOSE i \in hits : \A j \in hits : j <= i

\* Every order a map with these keys can be iterated in.
IterationOrders(keys) ==
    {f \in [1..Cardinality(keys) -> keys] :
        \A i, j \in 1..Cardinality(keys) : i # j => f[i] # f[j]}

InSeq(x, seq) == \E i \in 1..Len(seq) : seq[i] = x

Hit(key) == [found |-> TRUE, key |-> key]
Miss     == [found |-> FALSE, key |-> <<>>]

\* Mutant of findModule: the two extensions are tried in the other order.
findModule_luaFirst(moduleName) ==
    LET normalized == normalizeModulePath(moduleName)
        known      == DOMAIN g_modules
    IN  IF normalized \in known THEN Hit(normalized)
        ELSE IF (normalized \o EXT_LUA) \in known THEN Hit(normalized \o EXT_LUA)
        ELSE IF (normalized \o EXT_LUAU) \in known THEN Hit(normalized \o EXT_LUAU)
        ELSE Miss

\* Mutant of findModule: the name is cut at its first '.' (find for rfind).
findModule_firstDot(moduleName) ==
    LET normalized == normalizeModulePath(moduleName)
        known      == DOMAIN g_modules
        dots       == {i \in 1..Len(normalized) : normalized[i] = "."}
        dotPos     == IF dots = {} THEN 0
                      ELSE CHOOSE i \in dots : \A j \in dots : i <= j
        withoutExt == SubSeq(normalized, 1, dotPos - 1)
    IN  IF normalized \in known THEN Hit(normalized)
        ELSE IF (normalized \o EXT_LUAU) \in known THEN Hit(normalized \o EXT_LUAU)
        ELSE IF (normalized \o EXT_LUA) \in known THEN Hit(normalized \o EXT_LUA)
        ELSE IF dotPos # 0 /\ withoutExt \in known THEN Hit(withoutExt)
        ELSE IF dotPos # 0 /\ (withoutExt \o EXT_LUAU) \in known
             THEN Hit(withoutExt \o EXT_LUAU)
        ELSE IF dotPos # 0 /\ (withoutExt \o EXT_LUA) \in known
             THEN Hit(withoutExt \o EXT_LUA)
        ELSE Miss

findModule(moduleName) ==
    LET normalized == normalizeModulePath(moduleName)
        known      == DOMAIN g_modules
        dotPos     == rfindDot(normalized)
        withoutExt == SubSeq(normalized, 1, dotPos - 1)
    IN  IF normalized \in known THEN Hit(normalized)
        ELSE IF (normalized \o EXT_LUAU) \in known THEN Hit(normalized \o EXT_LUAU)
        ELSE IF (normalized \o EXT_LUA) \in known THEN Hit(normalized \o EXT_LUA)
        ELSE IF dotPos # 0 /\ withoutExt \in known THEN Hit(withoutExt)
        ELSE IF dotPos # 0 /\ (withoutExt \o EXT_LUAU) \in known
             THEN Hit(withoutExt \o EXT_LUAU)
        ELSE IF dotPos # 0 /\ (withoutExt \o EXT_LUA) \in known
             THEN Hit(withoutExt \o EXT_LUA)
        ELSE Miss

\* Mutant of findSource: the lookup of the name without its extension is missing.
findSource_noStem(srcs, path) ==
    LET normalized == normalizeModulePath(path)
        known      == DOMAIN srcs
    IN  IF normalized \in known THEN Hit(normalized)
        ELSE IF (normalized \o EXT_LUAU) \in known THEN Hit(normalized \o EXT_LUAU)
        ELSE IF (normalized \o EXT_LUA) \in known THEN Hit(normalized \o EXT_LUA)
        ELSE Miss

\* PlaygroundFileResolver::findSource, srcs being the resolver's sources member
findSource(srcs, path) ==
    LET normalized == normalizeModulePath(path)
        known      == DOMAIN srcs
        dotPos     == rfindDot(normalized)
        withoutExt == SubSeq(normalized, 1, dotPos - 1)
    IN  IF normalized \in known THEN Hit(normalized)
        ELSE IF (normalized \o EXT_LUAU) \in known THEN Hit(normalized \o EXT_LUAU)
        ELSE IF (normalized \o EXT_LUA) \in known THEN Hit(normalized \o EXT_LUA)
        ELSE IF dotPos # 0 /\ withoutExt \in known THEN Hit(withoutExt)
        ELSE IF dotPos # 0 /\ (withoutExt \o EXT_LUAU) \in known
             THEN Hit(withoutExt \o EXT_LUAU)
        ELSE IF dotPos # 0 /\ (withoutExt \o EXT_LUA) \in known
             THEN Hit(withoutExt \o EXT_LUA)
        ELSE Miss


-----------------------------------------------------------------------------
(* Module store and analysis controller *)

MAIN == <<"m", "a", "i", "n">>
DEP  == <<"d", "e", "p">>
LIB  == <<"l", "i", "b">>

\* Module names and source texts the public operations are called with.
Names == {MAIN, DEP}
Texts == {"ok", "strictbad"}

\* luau_set_mode's argument: 0 Nonstrict, 1 Strict, 2 NoCheck, anything else.
ModeArgs == 0..3

NoResult == [op |-> "none"]
NoRead   == [name |-> "none", value |-> 0]

\* The analysis globals as one record, so that a handler can thread them
\* through the calls it makes; calls collects, in order, what the handler does
\* on the analysis objects.
Analysis ==
    [g_frontend |-> g_frontend, frontendCtorCount |-> frontendCtorCount,
     sources |-> sources, configMode |-> configMode,
     FFlagLuauSolverV2 |-> FFlagLuauSolverV2,
     useNewLuauSolver |-> useNewLuauSolver, sourceNodes |-> sourceNodes,
     moduleResolver |-> moduleResolver,
     moduleResolverForAutocomplete |-> moduleResolverForAutocomplete,
     calls |-> <<>>]

SetAnalysis(a) ==
    /\ g_frontend' = a.g_frontend
    /\ frontendCtorCount' = a.frontendCtorCount
    /\ sources' = a.sources
    /\ configMode' = a.configMode
    /\ FFlagLuauSolverV2' = a.FFlagLuauSolverV2
    /\ useNewLuauSolver' = a.useNewLuauSolver
    /\ sourceNodes' = a.sourceNodes
    /\ moduleResolver' = a.moduleResolver
    /\ moduleResolverForAutocomplete' = a.moduleResolverForAutocomplete
    /\ frontendCalls' = a.calls

SolverMode(useNew) == IF useNew THEN "New" ELSE "Old"

\* The state a freshly constructed frontend (with its two resolvers) is in.
NewFrontend ==
    [g_frontend |-> frontendCtorCount + 1,
     frontendCtorCount |-> frontendCtorCount + 1,
     sources |-> EmptyMap, configMode |-> g_mode,
     FFlagLuauSolverV2 |-> g_useNewSolver,
     useNewLuauSolver |-> SolverMode(g_useNewSolver),
     sourceNodes |-> EmptyMap, moduleResolver |-> EmptyMap,
     moduleResolverForAutocomplete |-> EmptyMap, calls |-> <<>>]

\* Mutant of ensureAnalysisInit: the mode set before the construction is not
\* applied to the new config resolver.
ensureAnalysisInit_defaultMode ==
    IF g_frontend # 0 THEN Analysis
    ELSE [NewFrontend EXCEPT !.configMode = "Nonstrict"]

\* Mutant of ensureAnalysisInit: the early return is missing.
ensureAnalysisInit_always == NewFrontend

ensureAnalysisInit == IF g_frontend # 0 THEN Analysis ELSE NewFrontend

\* One entry of frontendCalls: "set" (sources[name] assigned), "markDirty"
\* and "check" (the Frontend member called with name).
Call(what, name) == [call |-> what, name |-> name]

Log(a, what, name) == [a EXCEPT !.calls = Append(@, Call(what, name))]

\* The entry of frontendCalls a configuration request opens with: "set_mode"
\* or "set_solver" and the argument given.
Request(what, arg) == [call |-> what, arg |-> arg]

\* The analysis globals when a configuration request is entered.
Requested(what, arg) == [Analysis EXCEPT !.calls = <<Request(what, arg)>>]

FullyDirty(node) ==
    node.dirtySourceModule /\ node.dirtyModule /\ node.dirtyModuleForAutocomplete

\* The work list of Frontend::markDirty: a node that is not dirty yet is made
\* dirty and the nodes that require it are queued.
RECURSIVE markDirtyQueue(_, _)
markDirtyQueue(nodes, queue) ==
    IF queue = {} THEN nodes
    ELSE LET next == CHOOSE n \in queue : TRUE
         IN  IF FullyDirty(nodes[next])
             THEN markDirtyQueue(nodes, queue \ {next})
             ELSE markDirtyQueue(
                    [nodes EXCEPT ![next] =
                        [@ EXCEPT !.dirtySourceModule = TRUE, !.dirtyModule = TRUE,
                                  !.dirtyModuleForAutocomplete = TRUE]],
                    (queue \ {next})
                        \cup {m \in DOMAIN nodes : next \in nodes[m].requireSet})

\* Luau::Frontend::markDirty: a module the frontend has no source node for is
\* left alone (its first check computes it anyway).
markDirty(a, name) ==
    LET a1 == Log(a, "markDirty", name)
    IN  IF name \notin DOMAIN a.sourceNodes THEN a1
        ELSE [a1 EXCEPT !.sourceNodes = markDirtyQueue(a.sourceNodes, {name})]

RECURSIVE markAllDirty(_, _)
markAllDirty(a, names) ==
    IF names = {} THEN a
    ELSE LET n == CHOOSE x \in names : TRUE
         IN  With(markDirty(a, n), LAMBDA a1 : markAllDirty(a1, names \ {n}))

\* Whether the next check of name (either flavour) computes it again.
NeedsCheck(name) ==
    \/ name \notin DOMAIN sourceNodes
    \/ /\ sourceNodes[name].dirtyModule
       /\ sourceNodes[name].dirtyModuleForAutocomplete

\* The errors the type checker reports for the text of a module under a mode.
errorsOf(name, text, mode) ==
    IF text = "strictbad" /\ mode = "Strict"
    THEN <<[module |-> name, what |-> "TypeError"]>>
    ELSE <<>>

\* The paths a text imports with require, in source order.
requiresOf(text) ==
    IF text = "usesdep" THEN <<DOT_SLASH \o DEP>>
    ELSE IF text = "useslib" THEN <<DOT_SLASH \o LIB>>
    ELSE <<>>

\* PlaygroundFileResolver::readSource as the frontend uses it: the text of a
\* module is read when the module has no source node or a dirty one.
readSource(a, name) ==
    LET src == findSource(a.sources, name)
    IN  IF name \in DOMAIN a.sourceNodes /\ ~a.sourceNodes[name].dirtySourceModule
        THEN a.sourceNodes[name].text
        ELSE IF src.found THEN a.sources[src.key] ELSE "none"

\* PlaygroundFileResolver::resolveModule for a constant string path
resolveModule(a, path) == findSource(a.sources, path)

\* The modules a module requires, as the frontend records them in its node.
requireSetOf(a, name) ==
    LET paths == requiresOf(readSource(a, name))
    IN  {resolveModule(a, paths[i]).key :
            i \in {j \in 1..Len(paths) : resolveModule(a, paths[j]).found}}

\* The requireSet of the source node of name as Frontend::parseGraph finds
\* it: the one recorded at the last parse, or, for a module without a node or
\* with a dirty one, the one of the parse made now.
requireSetNow(a, name) ==
    IF name \in DOMAIN a.sourceNodes /\ ~a.sourceNodes[name].dirtySourceModule
    THEN a.sourceNodes[name].requireSet
    ELSE requireSetOf(a, name)

\* Frontend::parseGraph: the modules reachable from name through the
\* requireSets, every module after the modules it requires.
RECURSIVE parseGraph(_, _, _)
RECURSIVE parseRequires(_, _, _)
parseGraph(a, name, visiting) ==
    parseRequires(a, requireSetNow(a, name), visiting \cup {name}) \o <<name>>

parseRequires(a, required, visiting) ==
    IF required = {} THEN <<>>
    ELSE LET m     == CHOOSE x \in required : TRUE
             first == IF m \notin visiting
                      THEN parseGraph(a, m, visiting) ELSE <<>>
             rest  == parseRequires(a, required \ {m}, visiting)
         IN  first \o SelectSeq(rest, LAMBDA x : ~InSeq(x, first))

\* The source node of name once the frontend has parsed it (again).
parsedNode(a, name) ==
    IF name \in DOMAIN a.sourceNodes /\ ~a.sourceNodes[name].dirtySourceModule
    THEN a.sourceNodes[name]
    ELSE [dirtySourceModule |-> FALSE, dirtyModule |-> TRUE,
          dirtyModuleForAutocomplete |-> TRUE, text |-> readSource(a, name),
          requireSet |-> requireSetOf(a, name)]

isDirty(node, forAutocomplete) ==
    IF forAutocomplete THEN node.dirtyModuleForAutocomplete ELSE node.dirtyModule

\* The type check of the modules of the build queue, in order: each module is
\* stored in the resolver of the flavour checked and is no longer dirty for it.
RECURSIVE checkBuildQueue(_, _, _)
checkBuildQueue(a, queue, forAutocomplete) ==
    IF Len(queue) = 0 THEN a
    ELSE LET name   == Head(queue)
             node   == a.sourceNodes[name]
             module == [name |-> name, text |-> node.text, mode |-> a.configMode,
                        solver |-> a.useNewLuauSolver,
                        forAutocomplete |-> forAutocomplete,
                        requires |-> node.requireSet,
                        errors |-> errorsOf(name, node.text, a.configMode)]
             node2  == IF forAutocomplete
                       THEN [node EXCEPT !.dirtyModuleForAutocomplete = FALSE]
                       ELSE [node EXCEPT !.dirtyModule = FALSE]
             a1     == [a EXCEPT
                          !.sourceNodes = MapPut(a.sourceNodes, name, node2),
                          !.moduleResolver =
                              IF forAutocomplete THEN @ ELSE MapPut(@, name, module),
                          !.moduleResolverForAutocomplete =
                              IF forAutocomplete THEN MapPut(@, name, module) ELSE @]
         IN  With(a1, LAMBDA a2 :
                With(Tail(queue), LAMBDA rest :
                    checkBuildQueue(a2, rest, forAutocomplete)))

\* The errors of the modules of names, one module after the other.
RECURSIVE errorsOfModules(_, _)
errorsOfModules(store, names) ==
    IF Len(names) = 0 THEN <<>>
    ELSE (IF Head(names) \in DOMAIN store THEN store[Head(names)].errors ELSE <<>>)
            \o errorsOfModules(store, Tail(names))

\* The source nodes once the modules of order have been parsed.
parseModules(a, order) ==
    LET parsed == {order[i] : i \in 1..Len(order)}
    IN  [a EXCEPT !.sourceNodes =
            [n \in (DOMAIN a.sourceNodes) \cup parsed |->
                IF n \in parsed THEN parsedNode(a, n) ELSE a.sourceNodes[n]]]

\* The resolver a check of the given flavour stores its modules in.
StoreOf(forAutocomplete) ==
    IF forAutocomplete THEN "moduleResolverForAutocomplete" ELSE "moduleResolver"

\* What a check answers with: the module stored for name and the errors of
\* the modules of names; wrote and computed tell which resolver the check
\* stored modules in and which modules it computed.
CheckResult(a, name, names, forAutocomplete, computed) ==
    LET store == IF forAutocomplete THEN a.moduleResolverForAutocomplete
                 ELSE a.moduleResolver
    IN  [a |-> a, module |-> store[name], errors |-> errorsOfModules(store, names),
         wrote |-> StoreOf(forAutocomplete), computed |-> computed]

\* Luau::Frontend::check(name, options): returns [a, module, errors], the
\* state after the check, the module it stored for name and the errors of its
\* CheckResult.  A module that is not dirty is answered from the resolver;
\* otherwise the dirty modules of the require graph are checked and the
\* result holds the errors of the modules this call checked.
FrontendCheck(a, name, forAutocompleteOpt) ==
    LET forAutocomplete ==
            IF a.useNewLuauSolver = "New" THEN FALSE ELSE forAutocompleteOpt
        cached == /\ name \in DOMAIN a.sourceNodes
                  /\ ~isDirty(a.sourceNodes[name], forAutocomplete)
    IN  With(parseGraph(a, name, {}), LAMBDA order :
            IF cached
            THEN CheckResult(Log(a, "check", name), name, order, forAutocomplete,
                             <<>>)
            ELSE With(parseModules(Log(a, "check", name), order), LAMBDA a1 :
                 With(SelectSeq(order,
                          LAMBDA n : isDirty(a1.sourceNodes[n], forAutocomplete)),
                      LAMBDA queue :
                 With(checkBuildQueue(a1, queue, forAutocomplete), LAMBDA a2 :
                      CheckResult(a2, name, queue, forAutocomplete, queue)))))

\* The loop of luau_get_diagnostics over the other modules; every result is
\* dropped.
RECURSIVE checkAll(_, _)
checkAll(a, names) ==
    IF names = {} THEN a
    ELSE LET n == CHOOSE x \in names : TRUE
         IN  With(FrontendCheck(a, n, FALSE).a,
                  LAMBDA a1 : checkAll(a1, names \ {n}))


\* Longest sequence of public operations explored.
MaxOps == 5

\* A public operation is entered: no call is in progress (the bindings are
\* single threaded) and no exception has left an earlier call.
Idle ==
    /\ ~escaped
    /\ pc = "idle"
    /\ opCount < MaxOps
    /\ opCount' = opCount + 1

luau_add_module(name, source) ==
    /\ Idle
    /\ g_modules' = MapPut(g_modules, name, source)
    /\ lastOp' = "add_module"
    /\ UNCHANGED <<g_resultBuffer, escaped, execVars, heap, resolved, analysisVars>>

luau_clear_modules ==
    /\ Idle
    /\ g_modules' = EmptyMap
    /\ lastOp' = "clear_modules"
    /\ UNCHANGED <<g_resultBuffer, escaped, execVars, heap, resolved, analysisVars>>

\* order: the order in which the loop iterates over g_modules
luau_get_modules(order) ==
    /\ Idle
    /\ g_resultBuffer' =
         [op |-> "get_modules",
          modules |-> SelectSeq(order,
                          LAMBDA name : ~(name = MAIN \/ name = MAIN \o EXT_LUAU))]
    /\ lastOp' = "get_modules"
    /\ UNCHANGED <<g_modules, escaped, execVars, heap, resolved, analysisVars>>

ModeOf(mode) ==
    CASE mode = 0 -> "Nonstrict"
      [] mode = 1 -> "Strict"
      [] mode = 2 -> "NoCheck"
      [] OTHER    -> "Nonstrict"

\* Mutant of luau_set_mode: the files are not marked dirty.
luau_set_mode_noDirty(mode) ==
    /\ Idle
    /\ g_mode' = ModeOf(mode)
    /\ configMode' = IF g_frontend # 0 THEN ModeOf(mode) ELSE configMode
    /\ lastOp' = "set_mode"
    /\ UNCHANGED <<g_modules, g_resultBuffer, escaped, execVars, heap, resolved,
                   g_frontend, frontendCtorCount, sources, g_useNewSolver,
                   FFlagLuauSolverV2, useNewLuauSolver, sourceNodes,
                   moduleResolver, moduleResolverForAutocomplete, frontendCalls>>

luau_set_mode(mode) ==
    /\ Idle
    /\ g_mode' = ModeOf(mode)
    /\ \E a1 \in {IF g_frontend # 0
                    THEN [Requested("set_mode", mode)
                            EXCEPT !.configMode = ModeOf(mode)]
                    ELSE Requested("set_mode", mode)} :
       \E a2 \in {IF g_frontend # 0 THEN markAllDirty(a1, DOMAIN a1.sources)
                    ELSE a1} :
          SetAnalysis(a2)
    /\ lastOp' = "set_mode"
    /\ UNCHANGED <<g_modules, g_resultBuffer, escaped, execVars, heap, resolved,
                   g_useNewSolver>>

\* Mutant of luau_set_solver: the frontend is reset to apply the new solver.
luau_set_solver_reset(useNew) ==
    /\ Idle
    /\ g_useNewSolver' = useNew
    /\ LET a1 == [Analysis EXCEPT !.FFlagLuauSolverV2 = useNew]
           a2 == IF g_frontend # 0
                 THEN [a1 EXCEPT !.useNewLuauSolver = SolverMode(useNew),
                                 !.sources = EmptyMap, !.sourceNodes = EmptyMap,
                                 !.moduleResolver = EmptyMap,
                                 !.moduleResolverForAutocomplete = EmptyMap]
                 ELSE a1
       IN  SetAnalysis(a2)
    /\ lastOp' = "set_solver"
    /\ UNCHANGED <<g_modules, g_resultBuffer, escaped, execVars, heap, resolved,
                   g_mode>>

luau_set_solver(useNew) ==
    /\ Idle
    /\ g_useNewSolver' = useNew
    /\ \E a1 \in {[Requested("set_solver", useNew)
                      EXCEPT !.FFlagLuauSolverV2 = useNew]} :
       \E a2 \in {IF g_frontend # 0
                    THEN markAllDirty(
                           [a1 EXCEPT !.useNewLuauSolver = SolverMode(useNew)],
                           DOMAIN a1.sources)
                    ELSE a1} :
          SetAnalysis(a2)
    /\ lastOp' = "set_solver"
    /\ UNCHANGED <<g_modules, g_resultBuffer, escaped, execVars, heap, resolved,
                   g_mode>>

luau_set_source(name, source) ==
    /\ Idle
    /\ \E a1 \in {ensureAnalysisInit} :
       \E a2 \in {Log([a1 EXCEPT !.sources = MapPut(@, name, source)],
                       "set", name)} :
       \E a3 \in {markDirty(a2, name)} :
          SetAnalysis(a3)
    /\ g_modules' = MapPut(g_modules, name, source)
    /\ lastOp' = "set_source"
    /\ UNCHANGED <<g_resultBuffer, escaped, execVars, heap, resolved,
                   g_mode, g_useNewSolver>>

\* The entry module registered and marked dirty: the common opening of
\* luau_get_diagnostics, luau_autocomplete and luau_hover.
SetMainSource(code) ==
    With(ensureAnalysisInit, LAMBDA a1 :
    With(Log([a1 EXCEPT !.sources = MapPut(@, MAIN, code)], "set", MAIN),
         LAMBDA a2 : markDirty(a2, MAIN)))

\* A C++ exception thrown by Luau::Frontend::check leaves the operation: none
\* of the analysis operations has a try block.
FrontendFault(op, a) ==
    /\ SetAnalysis(a)
    /\ escaped' = TRUE
    /\ lastOp' = op
    /\ UNCHANGED <<g_modules, g_resultBuffer, execVars, heap, resolved,
                   g_mode, g_useNewSolver>>

\* What luau_get_diagnostics returns: the errors of the check of the entry
\* module, and (for reference) the module that check stored.
DiagnosticsResult(errors, module) ==
    /\ g_resultBuffer' = [op |-> "get_diagnostics", diagnostics |-> errors,
                          module |-> module]
    /\ lastOp' = "get_diagnostics"
    /\ UNCHANGED <<g_modules, escaped, execVars, heap, resolved,
                   g_mode, g_useNewSolver>>

\* Mutant of luau_get_diagnostics: the errors of the checks of the other
\* modules are returned as well.
luau_get_diagnostics_allErrors(code, fault) ==
    /\ Idle
    /\ \E a2 \in {SetMainSource(code)} :
         IF fault THEN FrontendFault("get_diagnostics", a2)
         ELSE \E a3 \in {checkAll(a2, DOMAIN a2.sources \ {MAIN})} :
              \E r \in {FrontendCheck(a3, MAIN, FALSE)} :
                 /\ SetAnalysis(r.a)
                 /\ DiagnosticsResult(
                       errorsOfModules(r.a.moduleResolver,
                                       IF DEP \in DOMAIN r.a.sources
                                       THEN <<DEP>> ELSE <<>>) \o r.errors,
                       r.module)

\* Mutant of luau_get_diagnostics: the entry module is checked before the
\* other modules.
luau_get_diagnostics_entryFirst(code, fault) ==
    /\ Idle
    /\ \E a2 \in {SetMainSource(code)} :
         IF fault THEN FrontendFault("get_diagnostics", a2)
         ELSE \E r \in {FrontendCheck(a2, MAIN, FALSE)} :
              \E a3 \in {checkAll(r.a, DOMAIN a2.sources \ {MAIN})} :
                 /\ SetAnalysis(a3)
                 /\ DiagnosticsResult(r.errors, r.module)

luau_get_diagnostics(code, fault) ==
    /\ Idle
    /\ \E a2 \in {SetMainSource(code)} :
         IF fault THEN FrontendFault("get_diagnostics", a2)
         ELSE \E a3 \in {checkAll(a2, DOMAIN a2.sources \ {MAIN})} :
              \E r \in {FrontendCheck(a3, MAIN, FALSE)} :
                 /\ SetAnalysis(r.a)
                 /\ DiagnosticsResult(r.errors, r.module)

\* The module getModule(name) finds in the named resolver of the frontend.
getModule(a, resolver, name) ==
    LET store == IF resolver = "moduleResolver" THEN a.moduleResolver
                 ELSE a.moduleResolverForAutocomplete
    IN  IF name \in DOMAIN store THEN store[name] ELSE NoResult

\* What luau_autocomplete and luau_hover answer from: the module of the entry
\* module in the resolver they read; check is the result of the check the
\* operation made before (kept for reference).
ModuleResult(op, resolver, check) ==
    /\ g_resultBuffer' = [op |-> op,
                          module |-> getModule(check.a, resolver, MAIN),
                          read |-> resolver,
                          wrote |-> check.wrote, computed |-> check.computed]
    /\ lastOp' = op
    /\ UNCHANGED <<g_modules, escaped, execVars, heap, resolved,
                   g_mode, g_useNewSolver>>

luau_autocomplete(code, fault) ==
    /\ Idle
    /\ \E a2 \in {SetMainSource(code)} :
         IF fault THEN FrontendFault("autocomplete", a2)
         ELSE \E r \in {FrontendCheck(a2, MAIN, TRUE)} :
                 /\ SetAnalysis(r.a)
                 \* Luau::autocomplete reads the module the active solver stores
                 /\ ModuleResult("autocomplete",
                                 StoreOf(r.a.useNewLuauSolver # "New"), r)

\* Mutant of luau_hover: the module is read from moduleResolver whichever
\* solver is active.
luau_hover_mainStore(code, fault) ==
    /\ Idle
    /\ \E a2 \in {SetMainSource(code)} :
         IF fault THEN FrontendFault("hover", a2)
         ELSE \E r \in {FrontendCheck(a2, MAIN, TRUE)} :
                 /\ SetAnalysis(r.a)
                 /\ ModuleResult("hover", "moduleResolver", r)

luau_hover(code, fault) ==
    /\ Idle
    /\ \E a2 \in {SetMainSource(code)} :
         IF fault THEN FrontendFault("hover", a2)
         ELSE \E r \in {FrontendCheck(a2, MAIN, TRUE)} :
                 /\ SetAnalysis(r.a)
                 /\ ModuleResult("hover", StoreOf(~g_useNewSolver), r)

-----------------------------------------------------------------------------
(* Lua values and the value serializer *)

\* Lua values.  A table value is a reference into heap; heap[id] is the
\* sequence of the table's key/value pairs in the order lua_next yields them.
Nil      == [type |-> "nil"]
Bool(b)  == [type |-> "boolean", bool |-> b]
Str(s)   == [type |-> "string", str |-> s]
Tbl(id)  == [type |-> "table", ref |-> id]

\* A number (a double) is of one of the classes "int" (the integer num, in
\* the range of long long), "frac" (num + 1/2, num >= 0), "huge" (2^num, a
\* finite integral value out of the range of long long), "nan" and "inf"
\* (infinity of sign num).  Converting a double out of the range of long long
\* with static_cast<long long> is undefined: cast is what the build makes of
\* it, "max" (LLONG_MAX) or "min" (LLONG_MIN); "exact" for a value in range.
Number(cls, num, cast) ==
    [type |-> "number", cls |-> cls, num |-> num, cast |-> cast]

Num(n)     == Number("int", n, "exact")
Frac(n)    == Number("frac", n, "exact")
Huge(cast) == Number("huge", 64, cast)
NaN        == Number("nan", 0, "exact")
Inf(sign)  == Number("inf", sign, "exact")

\* A vector of LUA_VECTOR_SIZE float components
Vec(comps) == [type |-> "vector", comps |-> comps]
DigitChars == <<"0", "1", "2", "3", "4", "5", "6", "7", "8", "9">>

\* std::to_string of a long long
RECURSIVE to_string(_)
to_string(n) ==
    IF n < 0 THEN <<"-">> \o to_string(-n)
    ELSE IF n < 10 THEN <<DigitChars[n + 1]>>
    ELSE to_string(n \div 10) \o <<DigitChars[(n % 10) + 1]>>

DigitValue(c) == CHOOSE d \in 0..9 : DigitChars[d + 1] = c

IsDigits(s) == Len(s) > 0 /\ \A i \in 1..Len(s) : \E d \in 0..9 : DigitChars[d + 1] = s[i]

RECURSIVE DigitsValue(_)
DigitsValue(s) ==
    IF Len(s) = 0 THEN 0
    ELSE 10 * DigitsValue(SubSeq(s, 1, Len(s) - 1)) + DigitValue(s[Len(s)])

\* lua_isnumber: a number, or a string that converts to a number
lua_isnumber(v) ==
    \/ v.type = "number"
    \/ v.type = "string" /\ IsDigits(v.str)

\* A double, as the value of a number without what the build makes of it.
Double(cls, num) == [cls |-> cls, num |-> num]

\* lua_tonumber: the number, the converted string, 0 otherwise
lua_tonumber(v) ==
    IF v.type = "number" THEN Double(v.cls, v.num)
    ELSE IF v.type = "string" /\ IsDigits(v.str)
    THEN Double("int", DigitsValue(v.str))
    ELSE Double("int", 0)

LLONG_MAX == <<"9", "2", "2", "3", "3", "7", "2", "0", "3", "6", "8", "5", "4",
               "7", "7", "5", "8", "0", "7">>
LLONG_MIN == <<"-", "9", "2", "2", "3", "3", "7", "2", "0", "3", "6", "8", "5",
               "4", "7", "7", "5", "8", "0", "8">>

\* std::to_string(static_cast<long long>(num)): the fraction is cut off; for
\* a number out of range the result is what the build makes of the conversion.
castText(v) ==
    IF v.cls \in {"int", "frac"} THEN to_string(v.num)
    ELSE IF v.cast = "max" THEN LLONG_MAX
    ELSE LLONG_MIN

\* num == static_cast<double>(static_cast<long long>(num)): LLONG_MAX and
\* LLONG_MIN convert back to 2^63 and -2^63, which 2^64 is not.
castRoundTrips(v) == v.cls = "int"

\* snprintf with "%.14g" (numbers) and "%.7g" (vector components): 14 or 7
\* significant digits, in exponent notation for a large value.
Format_g(v, digits) ==
    CASE v.cls = "int"  -> to_string(v.num)
      [] v.cls = "frac" -> to_string(v.num) \o <<".", "5">>
      [] v.cls = "huge" -> IF digits = 14
                           THEN <<"1", ".", "8", "4", "4", "6", "7", "4", "4", "0",
                                  "7", "3", "7", "1", "e", "+", "1", "9">>
                           ELSE <<"1", ".", "8", "4", "4", "6", "7", "4",
                                  "e", "+", "1", "9">>
      [] v.cls = "nan"  -> <<"n", "a", "n">>
      [] v.cls = "inf"  -> IF v.num > 0 THEN <<"i", "n", "f">>
                           ELSE <<"-", "i", "n", "f">>

\* The three components of a vector separated by ", "
vectorText(comps) ==
    Format_g(comps[1], 7) \o <<",", " ">> \o Format_g(comps[2], 7)
        \o <<",", " ">> \o Format_g(comps[3], 7)

\* luaL_tolstring, the runtime's default textual conversion
luaL_tolstring(v) ==
    CASE v.type = "nil"     -> <<"n", "i", "l">>
      [] v.type = "boolean" -> IF v.bool THEN <<"t", "r", "u", "e">>
                               ELSE <<"f", "a", "l", "s", "e">>
      [] v.type = "number"  -> Format_g(v, 14)
      [] v.type = "string"  -> v.str
      [] v.type = "vector"  -> vectorText(v.comps)
      [] v.type = "table"   -> <<"t", "a", "b", "l", "e", ":">> \o to_string(v.ref)

PopBack(seq) == SubSeq(seq, 1, Len(seq) - 1)

\* The first pass over the pairs of a table: the array test.
IsArrayPass(pairs) ==
    \A i \in 1..Len(pairs) :
        lua_isnumber(pairs[i].k) /\ lua_tonumber(pairs[i].k) = Double("int", i)

\* The object key a table key is emitted under.
KeyStr(k) ==
    IF k.type = "string" THEN k.str
    ELSE IF k.type = "number" THEN castText(k)
    ELSE luaL_tolstring(k)

\* Nested serializer calls past this depth stand for a recursion that does
\* not come back: a path of distinct tables is never longer than the heap.
DepthLimit(h) == Cardinality(DOMAIN h) + 1

RECURSIVE serializeValueToJson(_, _, _, _)
RECURSIVE serializeTableToJson(_, _, _, _)
RECURSIVE serializeTableToJson_noPop(_, _, _, _)
RECURSIVE serializeTableToJson_noPopEmpty(_, _, _, _)
RECURSIVE serializeChildren(_, _, _, _)

\* The JSON of a number: the string "nan", "inf" or "-inf" (s), an integer
\* (n) or the text "%.14g" gives (g).
numberJson(v) ==
    IF v.cls = "nan" THEN [type |-> "number", s |-> <<"n", "a", "n">>]
    ELSE IF v.cls = "inf"
    THEN [type |-> "number",
          s |-> IF v.num > 0 THEN <<"i", "n", "f">> ELSE <<"-", "i", "n", "f">>]
    ELSE IF castRoundTrips(v) THEN [type |-> "number", n |-> v.num]
    ELSE [type |-> "number", g |-> Format_g(v, 14)]

\* The JSON of a vector: every component the string "nan", "inf" or "-inf"
\* (s) or the text "%.7g" gives (g).
vectorJson(v) ==
    [type |-> "vector",
     value |-> [i \in 1..Len(v.comps) |->
                 IF v.comps[i].cls = "nan" THEN [s |-> <<"n", "a", "n">>]
                 ELSE IF v.comps[i].cls = "inf"
                 THEN [s |-> IF v.comps[i].num > 0 THEN <<"i", "n", "f">>
                             ELSE <<"-", "i", "n", "f">>]
                 ELSE [g |-> Format_g(v.comps[i], 7)]]]

\* What a serializer call that descends into no table returns.
Leaf(json, seen) == [out |-> json, seen |-> seen, trace |-> <<>>]

\* Each serializer returns [out, seen, trace]: what it appended to out, as a
\* JSON value, the visited stack it leaves behind (seen is passed by
\* reference) and, in order, the visited stack after each seen.push_back.
serializeValueToJson(h, v, seen, depth) ==
    CASE v.type = "nil"     -> Leaf([type |-> "nil"], seen)
      [] v.type = "boolean" -> Leaf([type |-> "boolean", b |-> v.bool], seen)
      [] v.type = "number"  -> Leaf(numberJson(v), seen)
      [] v.type = "string"  -> Leaf([type |-> "string", s |-> v.str], seen)
      [] v.type = "table"   -> serializeTableToJson(h, v.ref, seen, depth)
      [] v.type = "vector"  -> Leaf(vectorJson(v), seen)

\* The values of pairs serialized left to right, threading seen.
serializeChildren(h, pairs, seen, depth) ==
    IF Len(pairs) = 0 THEN [outs |-> <<>>, seen |-> seen, trace |-> <<>>]
    ELSE LET r1 == serializeValueToJson(h, pairs[1].v, seen, depth)
             rn == serializeChildren(h, Tail(pairs), r1.seen, depth)
         IN  [outs |-> <<r1.out>> \o rn.outs, seen |-> rn.seen,
              trace |-> r1.trace \o rn.trace]

TableJson(pairs, isArray, outs) ==
    IF isArray
    THEN [type |-> "table", isArray |-> TRUE, items |-> outs]
    ELSE [type |-> "table", isArray |-> FALSE,
          members |-> [i \in 1..Len(pairs) |->
                          [key |-> KeyStr(pairs[i].k), value |-> outs[i]]]]

\* Mutant of serializeTableToJson: seen.pop_back() is missing.
serializeTableToJson_noPop(h, ptr, seen, depth) ==
    IF InSeq(ptr, seen) THEN Leaf([type |-> "circular"], seen)
    ELSE IF depth > DepthLimit(h) THEN Leaf([type |-> "overflow"], seen)
    ELSE LET pairs   == h[ptr]
             isArray == IsArrayPass(pairs)
             kids    == serializeChildren(h, pairs, Append(seen, ptr), depth + 1)
         IN  [out |-> TableJson(pairs, isArray, kids.outs), seen |-> kids.seen,
              trace |-> <<Append(seen, ptr)>> \o kids.trace]

\* Mutant of serializeTableToJson: the return of an empty table does not pop.
serializeTableToJson_noPopEmpty(h, ptr, seen, depth) ==
    IF InSeq(ptr, seen) THEN Leaf([type |-> "circular"], seen)
    ELSE IF depth > DepthLimit(h) THEN Leaf([type |-> "overflow"], seen)
    ELSE LET pairs   == h[ptr]
             isArray == IsArrayPass(pairs)
             kids    == serializeChildren(h, pairs, Append(seen, ptr), depth + 1)
         IN  [out |-> TableJson(pairs, isArray, kids.outs),
              seen |-> IF Len(pairs) = 0 THEN kids.seen ELSE PopBack(kids.seen),
              trace |-> <<Append(seen, ptr)>> \o kids.trace]

serializeTableToJson(h, ptr, seen, depth) ==
    IF InSeq(ptr, seen) THEN Leaf([type |-> "circular"], seen)
    ELSE IF depth > DepthLimit(h) THEN Leaf([type |-> "overflow"], seen)
    ELSE LET pairs   == h[ptr]
             isArray == IsArrayPass(pairs)
             kids    == serializeChildren(h, pairs, Append(seen, ptr), depth + 1)
         IN  [out |-> TableJson(pairs, isArray, kids.outs),
              seen |-> PopBack(kids.seen),
              trace |-> <<Append(seen, ptr)>> \o kids.trace]

\* valuesJson of one print call: every argument with a visited stack of its own
valuesJson(h, args) ==
    [i \in 1..Len(args) |-> serializeValueToJson(h, args[i], <<>>, 1).out]

\* The visited stacks of one print call: for every argument the stack its
\* serialization starts with (a new vector), the stacks during it and the
\* stack it leaves behind.
seenOf(h, args) ==
    [i \in 1..Len(args) |->
        [start |-> <<>>,
         trace |-> serializeValueToJson(h, args[i], <<>>, 1).trace,
         left  |-> serializeValueToJson(h, args[i], <<>>, 1).seen]]

\* The plain text line of one print call: the arguments' texts joined by tabs
RECURSIVE printLine(_)
printLine(args) ==
    IF Len(args) = 0 THEN <<>>
    ELSE IF Len(args) = 1 THEN luaL_tolstring(args[1])
    ELSE printLine(PopBack(args)) \o <<"\t">> \o luaL_tolstring(args[Len(args)])

-----------------------------------------------------------------------------
(* Execution session *)

\* Bounds of one exploration: luau_execute calls, print calls per execution.
MaxCalls  == 2
MaxPrints == 2

NoError == [type |-> "none"]
\* A lua_State: its globals, the modules the import built-in compiled and
\* loaded into it, the error value being propagated, what luau_compile
\* returned for the top-level source ("none" before the call, "null", "error"
\* for a blob that encodes the compile error, "code"), the calls
\* luau_execute made on the instance and the call stack, innermost frame first.
NoState == [id |-> 0, open |-> FALSE, globals |-> EmptyMap, compiled |-> {},
            loaded |-> {}, raised |-> NoError, bytecode |-> "none", did |-> {},
            stack |-> <<>>]

\* A frame of the call stack: the top-level chunk ("main"), a function of the
\* script ("script") or a function of the host ("host"); name is the name
\* the function was defined or registered with, NoName when it has none.
NoName == "(null)"
Frame(kind, name, line) == [kind |-> kind, name |-> name, line |-> line]

MainFrame    == Frame("main", NoName, 1)
NamedFrame   == Frame("script", "f", 2)
AnonFrame    == Frame("script", NoName, 3)
ErrorFrame   == Frame("host", "error", -1)
RequireFrame == Frame("host", "require", -1)

Msg(text) == [type |-> "string", what |-> text]

\* The script's global variables, and the argument lists it prints.
GlobalNames == {"x"}
ExecArgs == {<<>>, <<Num(1), Str(<<"b">>)>>}

\* Mutant of luaL_newstate: the instance of the previous call is handed out again.
luaL_newstate_pooled(id) ==
    [L EXCEPT !.open = TRUE, !.raised = NoError, !.bytecode = "none", !.did = {},
              !.stack = <<>>]

\* luaL_newstate: a new instance, with no script global defined
luaL_newstate(id) ==
    [id |-> id, open |-> TRUE, globals |-> EmptyMap, compiled |-> {},
     loaded |-> {}, raised |-> NoError, bytecode |-> "none", did |-> {},
     stack |-> <<>>]

\* Mutant of lua_close: the instance is held by a plain pointer and no return
\* path closes it.
lua_close_leak(state) == state

\* lua_close by the unique_ptr that owns the instance
lua_close(state) == [state EXCEPT !.open = FALSE]

EarlyFailure(message) ==
    [op |-> "execute", success |-> FALSE, output |-> <<>>, prints |-> <<>>,
     error |-> message]

\* Mutant of FailureResult: the literal empty result of the early returns.
FailureResult_empty(output, prints, message) == EarlyFailure(message)

\* {"success":false,"output":g_outputBuffer,"prints":buildPrintsJson(),"error":...}
\* with output and prints the two capture buffers at that point
FailureResult(output, prints, message) ==
    [op |-> "execute", success |-> FALSE, output |-> output,
     prints |-> prints, error |-> message]

SuccessResult ==
    [op |-> "execute", success |-> TRUE, output |-> g_outputBuffer,
     prints |-> g_printCalls]

\* Mutant of ClearCapture: g_printCalls is not cleared.
ClearCapture_keepPrints == [output |-> <<>>, prints |-> g_printCalls]

\* g_outputBuffer.clear(); g_printCalls.clear(): the two buffers afterwards
ClearCapture == [output |-> <<>>, prints |-> <<>>]

\* luau_execute up to the protected call.  outcome is what the runtime does:
\* "nostate" (luaL_newstate returns null), "setup_fault" (a C++ exception
\* out of registerPlaygroundGlobals), "nocompile" (luau_compile returns
\* null), "syntax" (the source does not compile: luau_compile returns a blob
\* that encodes the error and luau_load fails with the compiler's message),
\* "noload" (luau_load fails on compiled code), "load_fault" (a C++ exception
\* out of luau_load), "run" (the chunk is called).  unwound: whether the
\* stack is unwound, closing the instance, when an exception leaves the call.
luau_execute(outcome, unwound) ==
    /\ Idle
    /\ callNo < MaxCalls
    /\ callNo' = callNo + 1
    /\ g_outputBuffer' = ClearCapture.output
    /\ g_printCalls' = ClearCapture.prints
    /\ emitted' = <<>>
    /\ seenStacks' = <<>>
    /\ observed' = NoRead
    /\ lastOp' = "execute"
    /\ LET fresh     == luaL_newstate(callNo + 1)
           loaded(b) == [fresh EXCEPT !.bytecode = b, !.did = {"luau_load"}]
       IN  CASE outcome = "nostate" ->
                  /\ L' = NoState
                  /\ g_resultBuffer' = EarlyFailure(Msg("Failed to create Lua state"))
                  /\ UNCHANGED <<pc, escaped>>
             [] outcome = "setup_fault" ->
                  /\ L' = IF unwound THEN lua_close(fresh) ELSE fresh
                  /\ escaped' = TRUE
                  /\ UNCHANGED <<pc, g_resultBuffer>>
             [] outcome = "nocompile" ->
                  /\ L' = lua_close([fresh EXCEPT !.bytecode = "null"])
                  /\ g_resultBuffer' = EarlyFailure(Msg("Compilation failed"))
                  /\ UNCHANGED <<pc, escaped>>
             [] outcome = "syntax" ->
                  /\ L' = lua_close(loaded("error"))
                  /\ g_resultBuffer' =
                       FailureResult(ClearCapture.output, ClearCapture.prints,
                                     Msg("compiler message"))
                  /\ UNCHANGED <<pc, escaped>>
             [] outcome = "noload" ->
                  /\ L' = lua_close(loaded("code"))
                  /\ g_resultBuffer' =
                       FailureResult(ClearCapture.output, ClearCapture.prints,
                                     Msg("load error"))
                  /\ UNCHANGED <<pc, escaped>>
             [] outcome = "load_fault" ->
                  /\ L' = IF unwound THEN lua_close(loaded("code"))
                          ELSE loaded("code")
                  /\ escaped' = TRUE
                  /\ UNCHANGED <<pc, g_resultBuffer>>
             [] outcome = "run" ->
                  /\ L' = [loaded("code") EXCEPT !.did = {"luau_load", "lua_pcall"},
                                                 !.stack = <<MainFrame>>]
                  /\ pc' = "running"
                  /\ UNCHANGED <<g_resultBuffer, escaped>>
    /\ UNCHANGED <<g_modules, effects, heap, resolved, analysisVars>>

\* The script is inside lua_pcall and no error is being propagated.
Running == ~escaped /\ pc = "running" /\ L.raised = NoError

\* The script assigns a global.
ScriptSetGlobal(g) ==
    /\ Running
    /\ L' = [L EXCEPT !.globals = MapPut(@, g, callNo)]
    /\ effects' = effects \cup {<<callNo, "global">>}
    /\ UNCHANGED <<lastOp, g_modules, g_resultBuffer, escaped, opCount, g_outputBuffer,
                   g_printCalls, pc, callNo, observed, emitted, seenStacks, heap, resolved,
                   analysisVars>>

\* The script reads a global: nil (0) or the call that assigned it.
ScriptGetGlobal(g) ==
    /\ Running
    /\ observed' = [name |-> g,
                    value |-> IF g \in DOMAIN L.globals THEN L.globals[g] ELSE 0]
    /\ UNCHANGED <<lastOp, g_modules, g_resultBuffer, escaped, opCount, g_outputBuffer,
                   g_printCalls, L, pc, callNo, effects, emitted, seenStacks,
                   heap,
                   resolved, analysisVars>>

playgroundPrint(args) ==
    /\ Running
    /\ Len(g_printCalls) < MaxPrints
    /\ g_printCalls' = Append(g_printCalls, valuesJson(heap, args))
    /\ g_outputBuffer' =
         IF g_outputBuffer # <<>>
         THEN g_outputBuffer \o <<"\n">> \o printLine(args)
         ELSE printLine(args)
    /\ emitted' = Append(emitted, args)
    /\ seenStacks' = seenOf(heap, args)
    /\ effects' = effects \cup {<<callNo, "print">>}
    /\ UNCHANGED <<lastOp, g_modules, g_resultBuffer, escaped, opCount, L, pc, callNo,
                   observed, heap, resolved, analysisVars>>

\* Size of the buffer lua_pushvfstring formats a message into (luaconf.h).
LUA_BUFFERSIZE == 512

\* lua_pushvfstring: vsnprintf into the buffer, which cuts a longer message.
lua_pushvfstring(text) ==
    IF Len(text) < LUA_BUFFERSIZE THEN text
    ELSE SubSeq(text, 1, LUA_BUFFERSIZE - 1)

Quote(name) == <<"'">> \o name \o <<"'">>

\* The available string of playgroundRequire: the keys of g_modules, quoted
\* and separated by ", ", in the order the map is iterated in.
RECURSIVE availableList(_)
availableList(order) ==
    IF Len(order) = 0 THEN <<>>
    ELSE IF Len(order) = 1 THEN Quote(order[1])
    ELSE availableList(PopBack(order)) \o <<",", " ">> \o Quote(order[Len(order)])

\* "module '%s' not found\navailable modules: %s"
NotFoundText(moduleName, available) ==
    <<"m", "o", "d", "u", "l", "e", " ">> \o Quote(moduleName)
        \o <<" ", "n", "o", "t", " ", "f", "o", "u", "n", "d", "\n">>
        \o <<"a", "v", "a", "i", "l", "a", "b", "l", "e", " ",
             "m", "o", "d", "u", "l", "e", "s", ":", " ">>
        \o available

\* The import built-in.  On a miss it raises the error that lists the known
\* modules, order being the iteration order of g_modules; on a hit the module
\* is compiled, loaded and called.  outcome is what the runtime does on a
\* hit: "nocompile" (luau_compile returns null), "noload" (luau_load fails),
\* "ok" (the chunk is loaded and called).
playgroundRequire(moduleName, outcome, order) ==
    /\ Running
    /\ LET it == findModule(moduleName)
       IN  L' = IF ~it.found
                   THEN [L EXCEPT !.raised =
                           [type |-> "string", what |-> "module not found",
                            name |-> moduleName,
                            text |-> lua_pushvfstring(
                                NotFoundText(moduleName, availableList(order)))],
                                  !.stack = <<RequireFrame>> \o @]
                   ELSE IF outcome = "nocompile"
                   THEN [L EXCEPT !.raised =
                           [type |-> "string", what |-> "failed to compile module",
                            name |-> moduleName],
                                  !.stack = <<RequireFrame>> \o @]
                   ELSE IF outcome = "noload"
                   THEN [L EXCEPT !.compiled = @ \cup {it.key},
                                  !.raised = Msg("load error"),
                                  !.stack = <<RequireFrame>> \o @]
                   ELSE [L EXCEPT !.compiled = @ \cup {it.key},
                                  !.loaded = @ \cup {it.key}]
    /\ UNCHANGED <<lastOp, g_modules, g_resultBuffer, escaped, opCount, g_outputBuffer,
                   g_printCalls, pc, callNo, observed, effects, emitted, seenStacks, heap,
                   resolved, analysisVars>>

\* The error value a script raises: a value of the given type; what is the
\* text of a string and of a number.
ErrorValue(kind) ==
    [type |-> kind, what |-> IF kind = "number" THEN "42" ELSE "script error"]

\* The script raises an error value (error(...), or a failing operation)
\* from below the frames of calls.
ScriptRaise(kind, calls) ==
    /\ Running
    /\ L' = [L EXCEPT !.raised = ErrorValue(kind), !.stack = calls \o @]
    /\ UNCHANGED <<lastOp, g_modules, g_resultBuffer, escaped, opCount, g_outputBuffer,
                   g_printCalls, pc, callNo, observed, effects, emitted, seenStacks, heap,
                   resolved, analysisVars>>

\* lua_isstring: a string, or a number (which converts to a string)
lua_isstring(v) == v.type \in {"string", "number"}

\* lua_getinfo(L, level, "sln", &ar) for a frame, as the runtime answers it:
\* what is "C" for a function of the host and "Lua" for every function and
\* chunk of a script, the top-level chunk included; the top-level chunk and
\* an anonymous function have no name.
lua_getinfo(frame) ==
    [source      |-> IF frame.kind = "host" THEN "=[C]" ELSE "=main",
     currentline |-> frame.line,
     name        |-> frame.name,
     what        |-> IF frame.kind = "host" THEN "C" ELSE "Lua"]

\* The label of one trace entry
traceLabel(ar) ==
    IF ar.name # NoName THEN "function"
    ELSE IF ar.what = "main" THEN "main chunk"
    ELSE IF ar.what = "C" THEN "C function"
    ELSE "?"

\* One entry of the traceback: source, line when positive (0 stands for no
\* line), label and, with the label "function", the name
traceEntry(ar) ==
    [source |-> ar.source,
     line   |-> IF ar.currentline > 0 THEN ar.currentline ELSE 0,
     label  |-> traceLabel(ar),
     name   |-> IF ar.name # NoName THEN ar.name ELSE NoName]

\* record r with the field trace added
WithTrace(r, trace) ==
    [f \in DOMAIN r \cup {"trace"} |-> IF f = "trace" THEN trace ELSE r[f]]

\* errorHandler: the message made of the error value, followed by one trace
\* entry for every frame from level 1 on (stack is the stack at level 1).
errorHandler(err, stack) ==
    WithTrace(IF lua_isstring(err) THEN [err EXCEPT !.type = "string"]
              ELSE [type |-> "string", what |-> "(error object is a value)",
                    kind |-> err.type],
              [i \in 1..Len(stack) |-> traceEntry(lua_getinfo(stack[i]))])

\* lua_pcall comes back and luau_execute builds its result.  how: "return"
\* (the chunk returned or its error reached lua_pcall), "std_exception",
\* "other_exception" (a C++ exception out of lua_pcall, caught).
luau_execute_return(how) ==
    /\ ~escaped
    /\ pc = "running"
    /\ how # "return" => L.raised = NoError
    /\ g_resultBuffer' =
         CASE how = "std_exception" ->
                FailureResult(g_outputBuffer, g_printCalls, Msg("C++ exception"))
           [] how = "other_exception" ->
                FailureResult(g_outputBuffer, g_printCalls,
                              Msg("Unknown C++ exception"))
           [] how = "return" ->
                IF L.raised # NoError
                THEN FailureResult(g_outputBuffer, g_printCalls,
                                   errorHandler(L.raised, L.stack))
                ELSE SuccessResult
    /\ L' = lua_close(L)
    /\ pc' = "idle"
    /\ lastOp' = "execute"
    /\ UNCHANGED <<g_modules, escaped, opCount, g_outputBuffer, g_printCalls,
                   callNo, observed, effects, emitted, seenStacks, heap, resolved,
                   analysisVars>>

\* What the runtime can do with the source luau_execute is given.
ExecOutcomes ==
    {"nostate", "setup_fault", "nocompile", "syntax", "noload", "load_fault", "run"}

\* Module names the scripts import: one that resolves and one that does not.
RequireNames == {DOT_SLASH \o DEP, <<"n", "o", "p", "e">>}

NextExec ==
    \/ \E o \in ExecOutcomes, u \in BOOLEAN : luau_execute(o, u)
    \/ \E g \in GlobalNames : ScriptSetGlobal(g)
    \/ \E g \in GlobalNames : ScriptGetGlobal(g)
    \/ \E args \in ExecArgs : playgroundPrint(args)
    \/ \E n \in RequireNames, o \in {"ok", "nocompile", "noload"},
          order \in IterationOrders(DOMAIN g_modules) :
          playgroundRequire(n, o, order)
    \/ \E k \in {"string", "table"} : ScriptRaise(k, <<ErrorFrame>>)
    \/ \E how \in {"return", "std_exception", "other_exception"} :
          luau_execute_return(how)


Init ==
    /\ g_modules = EmptyMap
    /\ g_resultBuffer = NoResult
    /\ escaped = FALSE
    /\ lastOp = "none"
    /\ opCount = 0
    /\ g_outputBuffer = <<>>
    /\ g_printCalls = <<>>
    /\ L = NoState
    /\ pc = "idle"
    /\ callNo = 0
    /\ observed = NoRead
    /\ effects = {}
    /\ emitted = <<>>
    /\ seenStacks = <<>>
    /\ heap = EmptyMap
    /\ resolved = NoResult
    /\ g_frontend = 0
    /\ frontendCtorCount = 0
    /\ sources = EmptyMap
    /\ configMode = "none"
    /\ g_mode = "Nonstrict"
    /\ g_useNewSolver = TRUE
    /\ FFlagLuauSolverV2 = FALSE
    /\ useNewLuauSolver = "none"
    /\ sourceNodes = EmptyMap
    /\ moduleResolver = EmptyMap
    /\ moduleResolverForAutocomplete = EmptyMap
    /\ frontendCalls = <<>>

\* The module store and the analysis controller under every public
\* operation except luau_execute (see SpecExec).
Next ==
    \/ \E n \in Names, t \in Texts : luau_add_module(n, t)
    \/ luau_clear_modules
    \/ \E order \in IterationOrders(DOMAIN g_modules) : luau_get_modules(order)
    \/ \E m \in ModeArgs : luau_set_mode(m)
    \/ \E u \in BOOLEAN : luau_set_solver(u)
    \/ \E n \in Names, t \in Texts : luau_set_source(n, t)
    \/ \E t \in Texts, f \in BOOLEAN : luau_get_diagnostics(t, f)
    \/ \E t \in Texts, f \in BOOLEAN : luau_autocomplete(t, f)
    \/ \E t \in Texts, f \in BOOLEAN : luau_hover(t, f)

Spec == Init /\ [][Next]_vars

\* Executions start from a module store filled by earlier luau_add_module calls.
InitExec ==
    /\ g_modules \in {EmptyMap, MapPut(EmptyMap, DEP, "ok")}
    /\ g_resultBuffer = NoResult
    /\ escaped = FALSE
    /\ lastOp = "none"
    /\ opCount = 0
    /\ g_outputBuffer = <<>>
    /\ g_printCalls = <<>>
    /\ L = NoState
    /\ pc = "idle"
    /\ callNo = 0
    /\ observed = NoRead
    /\ effects = {}
    /\ emitted = <<>>
    /\ seenStacks = <<>>
    /\ heap = EmptyMap
    /\ resolved = NoResult
    /\ g_frontend = 0
    /\ frontendCtorCount = 0
    /\ sources = EmptyMap
    /\ configMode = "none"
    /\ g_mode = "Nonstrict"
    /\ g_useNewSolver = TRUE
    /\ FFlagLuauSolverV2 = FALSE
    /\ useNewLuauSolver = "none"
    /\ sourceNodes = EmptyMap
    /\ moduleResolver = EmptyMap
    /\ moduleResolverForAutocomplete = EmptyMap
    /\ frontendCalls = <<>>

SpecExec == InitExec /\ [][NextExec]_vars

-----------------------------------------------------------------------------
(* Imports from a large module store *)

\* Length of the long module name of ProjectStore.
LongNameLen == 480

LongName == [i \in 1..LongNameLen |-> "p"]

\* A module store with "dep" and a module with a long name.
ProjectStore == MapPut(MapPut(EmptyMap, DEP, "ok"), LongName, "ok")

\* A script is running (luau_execute("run") has happened) on ProjectStore.
InitRequire ==
    /\ g_modules = ProjectStore
    /\ heap = EmptyMap
    /\ g_resultBuffer = NoResult
    /\ escaped = FALSE
    /\ lastOp = "execute"
    /\ opCount = 1
    /\ g_outputBuffer = <<>>
    /\ g_printCalls = <<>>
    /\ L = [luaL_newstate(1) EXCEPT !.bytecode = "code",
                                    !.did = {"luau_load", "lua_pcall"},
                                    !.stack = <<MainFrame>>]
    /\ pc = "running"
    /\ callNo = 1
    /\ observed = NoRead
    /\ effects = {}
    /\ emitted = <<>>
    /\ seenStacks = <<>>
    /\ resolved = NoResult
    /\ g_frontend = 0
    /\ frontendCtorCount = 0
    /\ sources = EmptyMap
    /\ configMode = "none"
    /\ g_mode = "Nonstrict"
    /\ g_useNewSolver = TRUE
    /\ FFlagLuauSolverV2 = FALSE
    /\ useNewLuauSolver = "none"
    /\ sourceNodes = EmptyMap
    /\ moduleResolver = EmptyMap
    /\ moduleResolverForAutocomplete = EmptyMap
    /\ frontendCalls = <<>>

NextRequire ==
    \/ \E n \in RequireNames, o \in {"ok", "nocompile", "noload"},
          order \in IterationOrders(DOMAIN g_modules) :
          playgroundRequire(n, o, order)
    \/ \E args \in ExecArgs : playgroundPrint(args)
    \/ \E g \in GlobalNames : ScriptSetGlobal(g)
    \/ \E k \in {"string", "table"} : ScriptRaise(k, <<ErrorFrame>>)
    \/ \E how \in {"return", "std_exception", "other_exception"} :
          luau_execute_return(how)

SpecRequire == InitRequire /\ [][NextRequire]_vars

-----------------------------------------------------------------------------
(* Serialization of tables *)

\* Bounds: pairs of the table whose keys vary, tables of a table graph.
MaxKeys   == 3
MaxTables == 2

SerKeys ==
    {Num(1), Num(2), Num(3), Num(4), Str(<<"1">>), Str(<<"x">>), Bool(TRUE)}

\* Every order in which lua_next can yield up to MaxKeys distinct keys.
KeyOrders ==
    UNION {{ks \in [1..n -> SerKeys] : \A i, j \in 1..n : i # j => ks[i] # ks[j]}
           : n \in 0..MaxKeys}

\* One table with varying keys and scalar values.
KeyHeaps ==
    {[id \in {1} |-> [i \in 1..Len(ks) |-> [k |-> ks[i], v |-> Str(<<"v">>)]]]
     : ks \in KeyOrders}

GraphValues == {Num(7)} \cup {Tbl(id) : id \in 1..MaxTables}
GraphRows   == UNION {[1..n -> GraphValues] : n \in 0..2}
ObjectKeys  == <<Str(<<"x">>), Str(<<"y">>)>>

\* MaxTables tables that refer to each other in every way, all of them
\* sequences (keys 1..n) or all of them objects (string keys).
GraphHeaps ==
    {[id \in 1..MaxTables |->
        [i \in 1..Len(rows[id]) |->
            [k |-> IF asArray THEN Num(i) ELSE ObjectKeys[i], v |-> rows[id][i]]]]
     : rows \in [1..MaxTables -> GraphRows], asArray \in BOOLEAN}

SerArgs == {<<Tbl(1)>>, <<Tbl(1), Tbl(1)>>}

\* A script is running (luau_execute("run") has happened) and has built its tables.
InitSerialize ==
    /\ heap \in KeyHeaps \cup GraphHeaps
    /\ g_modules = EmptyMap
    /\ g_resultBuffer = NoResult
    /\ escaped = FALSE
    /\ lastOp = "execute"
    /\ opCount = 1
    /\ g_outputBuffer = <<>>
    /\ g_printCalls = <<>>
    /\ L = [luaL_newstate(1) EXCEPT !.bytecode = "code",
                                    !.did = {"luau_load", "lua_pcall"},
                                    !.stack = <<MainFrame>>]
    /\ pc = "running"
    /\ callNo = 1
    /\ observed = NoRead
    /\ effects = {}
    /\ emitted = <<>>
    /\ seenStacks = <<>>
    /\ resolved = NoResult
    /\ g_frontend = 0
    /\ frontendCtorCount = 0
    /\ sources = EmptyMap
    /\ configMode = "none"
    /\ g_mode = "Nonstrict"
    /\ g_useNewSolver = TRUE
    /\ FFlagLuauSolverV2 = FALSE
    /\ useNewLuauSolver = "none"
    /\ sourceNodes = EmptyMap
    /\ moduleResolver = EmptyMap
    /\ moduleResolverForAutocomplete = EmptyMap
    /\ frontendCalls = <<>>

NextSerialize ==
    \/ \E args \in SerArgs : playgroundPrint(args)
    \/ luau_execute_return("return")

SpecSerialize == InitSerialize /\ [][NextSerialize]_vars


-----------------------------------------------------------------------------
(* Name resolution *)

STEM      == <<"a", "/", "b">>

\* Keys the registries are filled with, and the spellings looked up.
ResolveKeys == {STEM, STEM \o EXT_LUAU, STEM \o EXT_LUA}
\* The spellings looked up: a prefix the normalization strips (or does not),
\* the stem, and no, one or two extensions.
RawPrefixes == {<<>>, DOT_SLASH, SLASH, DOT_SLASH \o SLASH, SLASH \o DOT_SLASH}
RawNames ==
    {pre \o STEM \o ext : pre \in RawPrefixes, ext \in {<<>>, EXT_LUAU, EXT_LUA}}
        \cup {STEM \o <<".", "x">> \o EXT_LUA}

\* One lookup of a raw name: by the import built-in (playgroundRequire
\* calls findModule) and by the analysis resolver (resolveModule calls
\* findSource).  Neither changes a registry.
Resolve(raw) ==
    /\ ~escaped
    /\ resolved' = [raw |-> raw, normalized |-> normalizeModulePath(raw),
                    module |-> findModule(raw),
                    source |-> findSource(sources, raw)]
    /\ UNCHANGED <<storeVars, execVars, heap, analysisVars>>

NextResolve ==
    \/ \E k \in ResolveKeys : luau_add_module(k, "ok")
    \/ \E k \in ResolveKeys : luau_set_source(k, "ok")
    \/ luau_clear_modules
    \/ \E raw \in RawNames : Resolve(raw)

SpecResolve == Init /\ [][NextResolve]_vars

-----------------------------------------------------------------------------
(* The module store *)

\* The names modules are registered under: the entry module under each of
\* its spellings, and another module.
StoreNames == {MAIN, MAIN \o EXT_LUAU, MAIN \o EXT_LUA, DEP}

NextStore ==
    \/ \E n \in StoreNames : luau_add_module(n, "ok")
    \/ luau_clear_modules
    \/ \E order \in IterationOrders(DOMAIN g_modules) : luau_get_modules(order)

SpecStore == Init /\ [][NextStore]_vars

-----------------------------------------------------------------------------
(* Diagnostics of a project of several modules *)

\* The modules registered beside the entry module and the texts they and the
\* entry module are given: one that type checks, one with a type error under
\* strict mode, one that imports "./dep".
DiagNames == {DEP, LIB}
DiagTexts == {"ok", "strictbad", "usesdep"}

NextDiag ==
    \/ \E n \in DiagNames, t \in DiagTexts : luau_set_source(n, t)
    \/ \E m \in {0, 1} : luau_set_mode(m)
    \/ \E t \in DiagTexts, f \in BOOLEAN : luau_get_diagnostics(t, f)
    \/ \E t \in DiagTexts : luau_hover(t, FALSE)

SpecDiag == Init /\ [][NextDiag]_vars

-----------------------------------------------------------------------------
(* Serialization of numbers, vectors and table keys *)

\* The numbers printed: of every class, the number out of the range of long
\* long under both outcomes of the undefined conversion.
NumberValues ==
    {Num(3), Frac(3), Huge("max"), Huge("min"), NaN, Inf(1), Inf(-1)}

VectorValues ==
    {Vec(<<Num(1), NaN, Inf(-1)>>), Vec(<<Frac(0), Inf(1), Huge("max")>>)}

\* The keys of the table printed: a number, the string of its digits, a
\* number between two integers, and others.
NumberKeys == {Num(1), Frac(1), Str(<<"1">>), Num(2), Str(<<"x">>)}

\* One table of up to two pairs, in every order lua_next can yield them.
NumberHeaps ==
    {[id \in {1} |-> [i \in 1..Len(ks) |-> [k |-> ks[i], v |-> Str(<<"v">>)]]]
     : ks \in UNION {{q \in [1..n -> NumberKeys] :
                          \A i, j \in 1..n : i # j => q[i] # q[j]}
                     : n \in 0..2}}

NumberArgs == {<<v>> : v \in NumberValues \cup VectorValues} \cup {<<Tbl(1)>>}

\* A script is running (luau_execute("run") has happened) and has built its table.
InitNumbers ==
    /\ heap \in NumberHeaps
    /\ g_modules = EmptyMap
    /\ g_resultBuffer = NoResult
    /\ escaped = FALSE
    /\ lastOp = "execute"
    /\ opCount = 1
    /\ g_outputBuffer = <<>>
    /\ g_printCalls = <<>>
    /\ L = [luaL_newstate(1) EXCEPT !.bytecode = "code",
                                    !.did = {"luau_load", "lua_pcall"},
                                    !.stack = <<MainFrame>>]
    /\ pc = "running"
    /\ callNo = 1
    /\ observed = NoRead
    /\ effects = {}
    /\ emitted = <<>>
    /\ seenStacks = <<>>
    /\ resolved = NoResult
    /\ g_frontend = 0
    /\ frontendCtorCount = 0
    /\ sources = EmptyMap
    /\ configMode = "none"
    /\ g_mode = "Nonstrict"
    /\ g_useNewSolver = TRUE
    /\ FFlagLuauSolverV2 = FALSE
    /\ useNewLuauSolver = "none"
    /\ sourceNodes = EmptyMap
    /\ moduleResolver = EmptyMap
    /\ moduleResolverForAutocomplete = EmptyMap
    /\ frontendCalls = <<>>

NextNumbers ==
    \/ \E args \in NumberArgs : playgroundPrint(args)
    \/ luau_execute_return("return")

SpecNumbers == InitNumbers /\ [][NextNumbers]_vars

-----------------------------------------------------------------------------
(* Queries of a project whose modules import each other *)

\* The entry module imports "./lib" or nothing; "lib" and "dep" are
\* registered with a text that imports "./dep" or nothing.
ProjectNames == {DEP, LIB}
ProjectTexts == {"ok", "usesdep"}
EntryTexts   == {"ok", "useslib"}

NextQueries ==
    \/ \E n \in ProjectNames, t \in ProjectTexts : luau_set_source(n, t)
    \/ \E m \in {0, 1} : luau_set_mode(m)
    \/ \E u \in BOOLEAN : luau_set_solver(u)
    \/ \E t \in EntryTexts : luau_get_diagnostics(t, FALSE)
    \/ \E t \in EntryTexts : luau_autocomplete(t, FALSE)
    \/ \E t \in EntryTexts : luau_hover(t, FALSE)

SpecQueries == Init /\ [][NextQueries]_vars

-----------------------------------------------------------------------------
(* Script errors *)

\* The types of the error values raised and the frames they are raised from
\* (above the top-level chunk): by error() in the chunk, in a named and in
\* an anonymous function, and by a failing operation of the chunk or of a
\* named function.
ErrorKinds == {"string", "number", "table", "nil", "boolean"}
ErrorCalls ==
    {<<ErrorFrame>>, <<ErrorFrame, NamedFrame>>, <<ErrorFrame, AnonFrame>>,
     <<>>, <<NamedFrame>>}

\* A failing operation raises a string; any value is raised through error().
ErrorRaises ==
    {r \in ErrorKinds \X ErrorCalls :
        r[1] # "string" => (r[2] # <<>> /\ Head(r[2]) = ErrorFrame)}

NextErrors ==
    \/ \E u \in BOOLEAN : luau_execute("run", u)
    \/ \E r \in ErrorRaises : ScriptRaise(r[1], r[2])
    \/ \E how \in {"return", "std_exception", "other_exception"} :
          luau_execute_return(how)

SpecErrors == InitExec /\ [][NextErrors]_vars

-----------------------------------------------------------------------------
(* Claims *)

\* luau_execute has returned a result (no call is in progress).
Returned ==
    ~escaped /\ pc = "idle" /\ lastOp = "execute" /\ g_resultBuffer.op = "execute"

\* The snapshots of the print calls of the current execution, in call order.
SnapshotsOfCalls == [i \in 1..Len(emitted) |-> valuesJson(heap, emitted[i])]

\* C1: each luau_execute call runs its script in an instance created for that
\* call: the script reads a global as nil unless this same call assigned it,
\* and modules are loaded only into the instance of the call that imports them.
C1_FreshInstancePerCall ==
    /\ pc = "running" => (L.open /\ L.id = callNo)
    /\ \A g \in DOMAIN L.globals : L.globals[g] = L.id
    /\ observed # NoRead =>
          /\ observed.value \in {0, callNo}
          /\ (<<callNo, "global">> \notin effects => observed.value = 0)

\* C1 witness: the first call assigned the global, the second call read it
\* and got nil.
C1_Witness ==
    /\ callNo = 2
    /\ pc = "running"
    /\ <<1, "global">> \in effects
    /\ observed # NoRead
    /\ observed.value = 0

\* C2: a failing luau_execute returns exactly the transcript and the
\* snapshots captured up to the failure, one snapshot per print call made.
C2_PartialOutputPreserved ==
    (Returned /\ ~g_resultBuffer.success) =>
        /\ g_resultBuffer.output = g_outputBuffer
        /\ g_resultBuffer.prints = g_printCalls
        /\ g_resultBuffer.prints = SnapshotsOfCalls

\* C2 witness: a script error after two print calls; both are in the result.
C2_Witness ==
    /\ Returned
    /\ ~g_resultBuffer.success
    /\ g_resultBuffer.error.what = "script error"
    /\ Len(emitted) = 2
    /\ Len(g_resultBuffer.prints) = 2
    /\ g_resultBuffer.output # <<>>

\* C4: the prints of a result are the snapshots of the print calls of that
\* call, one per call in call order, and nothing of an earlier call; a script
\* without a print call that succeeds returns an empty transcript and no prints.
C4_PrintsOfThisCallOnly ==
    /\ (pc = "running" /\ ~escaped) => g_printCalls = SnapshotsOfCalls
    /\ Returned =>
          /\ g_resultBuffer.prints = SnapshotsOfCalls
          /\ (g_resultBuffer.success /\ emitted = <<>>) =>
                (g_resultBuffer.output = <<>> /\ g_resultBuffer.prints = <<>>)

\* C4 witness: the first call printed, the second call printed nothing and
\* returned success with an empty transcript and no prints.
C4_Witness ==
    /\ Returned
    /\ callNo = 2
    /\ <<1, "print">> \in effects
    /\ emitted = <<>>
    /\ g_resultBuffer.success
    /\ g_resultBuffer.output = <<>>
    /\ g_resultBuffer.prints = <<>>

\* What the serializer is to produce for a value: a table already on the
\* path from the root is a circular marker, every other table is written out.
RECURSIVE ExpectedJson(_, _, _)
ExpectedJson(h, v, path) ==
    IF v.type # "table" THEN serializeValueToJson(h, v, <<>>, 1).out
    ELSE IF v.ref \in path THEN [type |-> "circular"]
    ELSE LET pairs == h[v.ref]
         IN  TableJson(pairs, IsArrayPass(pairs),
                       [i \in 1..Len(pairs) |->
                           ExpectedJson(h, pairs[i].v, path \cup {v.ref})])

\* C6: serializing a table graph comes back (no nesting deeper than the
\* number of tables), the circular marker stands exactly at the occurrences
\* of a table that is on the current descent path, and a table met again on
\* another path is written out in full.
C6_CircularExactlyAtBackEdges ==
    \A i \in 1..Len(g_printCalls) :
        g_printCalls[i] =
            [j \in 1..Len(emitted[i]) |-> ExpectedJson(heap, emitted[i][j], {})]

\* C6 witness: table 1 holds table 2 twice and table 2 holds table 1; both
\* occurrences of table 2 are written out, each with the back edge marked.
C6_Witness ==
    /\ DOMAIN heap = {1, 2}
    /\ heap[1] = <<[k |-> Num(1), v |-> Tbl(2)], [k |-> Num(2), v |-> Tbl(2)]>>
    /\ heap[2] = <<[k |-> Num(1), v |-> Tbl(1)]>>
    /\ Len(g_printCalls) = 1
    /\ LET out == g_printCalls[1][1]
       IN  /\ out.type = "table"
           /\ out.items[1].type = "table"
           /\ out.items[2] = out.items[1]
           /\ out.items[1].items[1].type = "circular"

\* C7 (as claimed): isArray is reported true exactly when every key is a
\* number and the keys are 1..N, N the number of pairs, in whatever order
\* the pairs are yielded.
C7_IsArrayIffSequence ==
    \A i \in 1..Len(g_printCalls) :
        LET pairs == heap[emitted[i][1].ref]
            out   == g_printCalls[i][1]
        IN  out.isArray <=>
                /\ \A p \in 1..Len(pairs) : pairs[p].k.type = "number"
                /\ {pairs[p].k.num : p \in 1..Len(pairs)} = 1..Len(pairs)

AnalysisOps == {"set_source", "get_diagnostics", "autocomplete", "hover"}

\* C3 (as claimed): no fault raised in any phase of a public operation leaves
\* the operation; every one of them ends in a structured result.
C3_NoFaultEscapes == ~escaped

\* The spellings of STEM \o ext that the lookup order tries before it.
TriedBefore(ext) ==
    {STEM} \cup (IF ext = EXT_LUA THEN {STEM \o EXT_LUAU} ELSE {})

SameKeyIn(known, find(_), ext, shadowed) ==
    LET key == STEM \o ext
    IN  (key \in known /\ (shadowed => TriedBefore(ext) \cap known = {}))
        => /\ find(DOT_SLASH \o key) = Hit(key)
           /\ find(STEM) = Hit(key)
           /\ find(SLASH \o STEM) = Hit(key)

FindInSources(raw) == findSource(sources, raw)

\* C5 (as claimed): whatever else is registered, once "a/b.ext" is registered
\* the spellings "./a/b.ext", "a/b" and "/a/b" resolve to that same key, in
\* the execution resolver and in the analysis resolver.
C5_SameKeyAnyRegistry ==
    \A ext \in {EXT_LUAU, EXT_LUA} :
        /\ SameKeyIn(DOMAIN g_modules, findModule, ext, FALSE)
        /\ SameKeyIn(DOMAIN sources, FindInSources, ext, FALSE)

\* C5 (amended): the three spellings resolve to the key "a/b.ext" in both
\* resolvers provided no spelling the lookup tries earlier is registered too:
\* "a/b" is not a key and, for ext = ".lua", "a/b.luau" is not a key.
C5_SameKeyUnshadowed ==
    \A ext \in {EXT_LUAU, EXT_LUA} :
        /\ SameKeyIn(DOMAIN g_modules, findModule, ext, TRUE)
        /\ SameKeyIn(DOMAIN sources, FindInSources, ext, TRUE)

\* C5 witness: "a/b" was looked up while only "a/b.lua" was registered in
\* both registries, and both resolvers answered with that key.
C5_Witness ==
    /\ resolved # NoResult
    /\ resolved.raw = STEM
    /\ DOMAIN g_modules = {STEM \o EXT_LUA}
    /\ DOMAIN sources = {STEM \o EXT_LUA}
    /\ resolved.module = Hit(STEM \o EXT_LUA)
    /\ resolved.source = Hit(STEM \o EXT_LUA)

C9_AllDirtyAfterSwitch ==
    (lastOp \in {"set_mode", "set_solver"} /\ g_frontend # 0)
        => \A n \in DOMAIN sources : NeedsCheck(n)

\* C9 witness: setMode returned with two modules registered that had both
\* been checked before.
C9_Witness ==
    /\ lastOp = "set_mode"
    /\ g_frontend # 0
    /\ {MAIN, DEP} \subseteq DOMAIN sources
    /\ {MAIN, DEP} \subseteq DOMAIN moduleResolver
    /\ \A n \in {MAIN, DEP} : sourceNodes[n].dirtyModule

\* C10: setMode and setSolver change neither registry: the keys and texts of
\* the analysis registry and of the module store are the same after the call.
C10_SwitchKeepsRegistries ==
    [][ lastOp' \in {"set_mode", "set_solver"}
          => (sources' = sources /\ g_modules' = g_modules) ]_vars

\* C10 witness: setSolver returned and the dependency registered before it is
\* still in both registries with its text.
C10_Witness ==
    /\ lastOp = "set_solver"
    /\ g_frontend # 0
    /\ DEP \in DOMAIN sources
    /\ DEP \in DOMAIN g_modules
    /\ sources[DEP] = "strictbad"
    /\ g_modules[DEP] = "strictbad"

\* The modules the entry module imports, directly or through other modules.
ImportedByEntry ==
    LET order == parseGraph(Analysis, MAIN, {})
    IN  {order[i] : i \in 1..Len(order)} \ {MAIN}

\* getDiagnostics has returned a result.
DiagnosticsReturned ==
    ~escaped /\ lastOp = "get_diagnostics" /\ g_resultBuffer.op = "get_diagnostics"

\* C11: the diagnostics getDiagnostics returns for the entry module hold no
\* error of a registered module the entry module does not import, although
\* getDiagnostics checked that module.
C11_NoErrorsOfUnimportedModule ==
    DiagnosticsReturned =>
        \A d \in DOMAIN sources \ ({MAIN} \cup ImportedByEntry) :
            /\ InSeq(Call("check", d), frontendCalls)
            /\ d \in DOMAIN moduleResolver
            /\ \A i \in 1..Len(g_resultBuffer.diagnostics) :
                  g_resultBuffer.diagnostics[i].module # d

\* C11 witness: the dependency has a type error, the entry module imports
\* nothing and has an error of its own; the dependency was checked and the
\* diagnostics are the entry module's error alone.
C11_Witness ==
    /\ DiagnosticsReturned
    /\ DEP \in DOMAIN sources
    /\ sources[MAIN] = "strictbad"
    /\ ImportedByEntry = {}
    /\ InSeq(Call("check", DEP), frontendCalls)
    /\ Len(moduleResolver[DEP].errors) = 1
    /\ g_resultBuffer.diagnostics = <<[module |-> MAIN, what |-> "TypeError"]>>

\* C12 (as claimed): when the top-level source does not compile, luau_execute
\* returns success=false with the compiler's message and has made neither the
\* load call nor the protected call on the instance.
C12_CompileFailureShortCircuits ==
    (Returned /\ L.bytecode \in {"null", "error"}) =>
        /\ ~g_resultBuffer.success
        /\ g_resultBuffer.error = Msg("compiler message")
        /\ "luau_load" \notin L.did
        /\ "lua_pcall" \notin L.did

\* text holds pat as a substring
Contains(text, pat) ==
    \E i \in 1..(Len(text) - Len(pat) + 1) :
        SubSeq(text, i, i + Len(pat) - 1) = pat

\* C13 (as claimed): an import of a name that resolves to no registered
\* module raises an error whose text lists every key of the module store, and
\* that import call compiles, loads and runs no module.
C13_MissListsEveryModule ==
    [][ (L.raised = NoError /\ L'.raised # NoError
            /\ L'.raised.what = "module not found")
          => /\ \A n \in DOMAIN g_modules : Contains(L'.raised.text, Quote(n))
             /\ L'.compiled = L.compiled
             /\ L'.loaded = L.loaded ]_vars

\* C14: whenever luau_execute has returned, by whichever return path, the
\* instance the call created is closed: between calls no instance is open.
C14_InstanceReleasedOnReturn ==
    (pc = "idle" /\ ~escaped) =>
        /\ ~L.open
        /\ (Returned /\ (g_resultBuffer.success
                          \/ g_resultBuffer.error # Msg("Failed to create Lua state")))
              => L.id = callNo

\* C14 witness: the second call ended in a caught C++ exception and its
\* instance is closed.
C14_Witness ==
    /\ Returned
    /\ callNo = 2
    /\ ~g_resultBuffer.success
    /\ g_resultBuffer.error = Msg("C++ exception")
    /\ L.id = 2
    /\ ~L.open

\* The spellings the entry module can be registered under.
EntrySpellings == {MAIN, MAIN \o EXT_LUAU, MAIN \o EXT_LUA}

\* C15 (as claimed): the listing of luau_get_modules holds the entry module
\* under none of its spellings and every other key of the module store
\* exactly once.
C15_ListingExcludesEntry ==
    (lastOp = "get_modules" /\ ~escaped) =>
        LET listing == g_resultBuffer.modules
        IN  /\ \A i \in 1..Len(listing) : listing[i] \notin EntrySpellings
            /\ \A key \in DOMAIN g_modules \ EntrySpellings :
                  Cardinality({i \in 1..Len(listing) : listing[i] = key}) = 1

\* The modules of the analysis registry that luau_set_source registered: the
\* analysis queries write the entry module only.
RegisteredBySetSource == DOMAIN sources \ {MAIN}

\* C16 (as claimed): whatever operations ran, every module registered
\* through setSource is in the analysis registry and in the module store
\* with the same text.
C16_RegistriesSynchronized ==
    \A n \in RegisteredBySetSource :
        /\ n \in DOMAIN g_modules
        /\ g_modules[n] = sources[n]

\* s begins with prefix
StartsWith(s, prefix) ==
    Len(s) >= Len(prefix) /\ SubSeq(s, 1, Len(prefix)) = prefix

\* C17 (as claimed): the normalized form of every raw name begins with
\* neither "./" nor "/", and normalizing it again gives the same name.
C17_NormalizeIdempotent ==
    resolved # NoResult =>
        /\ ~StartsWith(resolved.normalized, DOT_SLASH)
        /\ ~StartsWith(resolved.normalized, SLASH)
        /\ normalizeModulePath(resolved.normalized) = resolved.normalized

\* The six keys of the lookup order for a normalized name: the name, the
\* name with each extension, and, when the name holds a '.', the stem before
\* its last '.' and the stem with each extension.
Candidates(name) ==
    LET dots == {i \in 1..Len(name) : name[i] = "."}
        last == CHOOSE i \in dots : \A j \in dots : j <= i
        stem == SubSeq(name, 1, last - 1)
    IN  <<name, name \o EXT_LUAU, name \o EXT_LUA>>
            \o (IF dots = {} THEN <<>>
                ELSE <<stem, stem \o EXT_LUAU, stem \o EXT_LUA>>)

\* The first of the candidates that is a key of known
FirstRegistered(cands, known) ==
    LET hits == {i \in 1..Len(cands) : cands[i] \in known}
    IN  IF hits = {} THEN Miss
        ELSE Hit(cands[CHOOSE i \in hits : \A j \in hits : i <= j])

\* C18: a lookup answers with the first registered key of the six-key order
\* (the extension cut once, at the last '.'), with not-found when none of the
\* six is registered, and leaves the registries as they were.
C18_FirstHitInSixKeyOrder ==
    [][ resolved' # resolved =>
          /\ resolved'.module =
                FirstRegistered(Candidates(resolved'.normalized), DOMAIN g_modules)
          /\ g_modules' = g_modules
          /\ sources' = sources ]_vars

\* C18 witness: "a/b.x.lua" was looked up with "a/b" and "a/b.lua" registered:
\* the stem cut once is "a/b.x", none of the six keys is registered, and the
\* answer is not-found.
C18_Witness ==
    /\ resolved # NoResult
    /\ resolved.raw = STEM \o <<".", "x">> \o EXT_LUA
    /\ DOMAIN g_modules = {STEM, STEM \o EXT_LUA}
    /\ resolved.module = Miss

\* C19: when the module store and the analysis registry hold the same keys,
\* the import resolver and the analysis resolver answer every raw name alike:
\* both with not-found or both with the same key.
C19_ResolversAgree ==
    [][ (resolved' # resolved /\ DOMAIN g_modules = DOMAIN sources) =>
            resolved'.module = resolved'.source ]_vars

\* C19 witness: "./a/b.lua" was looked up with "a/b.luau" the only key of both
\* registries; both resolvers answered "a/b.luau", found through the stem.
C19_Witness ==
    /\ resolved # NoResult
    /\ resolved.raw = DOT_SLASH \o STEM \o EXT_LUA
    /\ DOMAIN g_modules = {STEM \o EXT_LUAU}
    /\ DOMAIN sources = {STEM \o EXT_LUAU}
    /\ resolved.module = Hit(STEM \o EXT_LUAU)
    /\ resolved.source = Hit(STEM \o EXT_LUAU)

HoverReturned == ~escaped /\ lastOp = "hover" /\ g_resultBuffer.op = "hover"

\* The resolver the active solver's checks store autocomplete-flavoured
\* modules in: moduleResolver for the new solver, else
\* moduleResolverForAutocomplete.
ActiveStore ==
    IF useNewLuauSolver = "New" THEN "moduleResolver"
    ELSE "moduleResolverForAutocomplete"

\* C21: the module hover answers from is the one the check of the same call
\* computed and stored in the resolver of the active solver (moduleResolver
\* for the new solver, moduleResolverForAutocomplete for the old one); hover
\* reads that resolver and not the other.
C21_HoverReadsActiveStore ==
    HoverReturned =>
        /\ g_resultBuffer.read = ActiveStore
        /\ g_resultBuffer.wrote = g_resultBuffer.read
        /\ InSeq(MAIN, g_resultBuffer.computed)
        /\ g_resultBuffer.module = getModule(Analysis, ActiveStore, MAIN)
        /\ g_resultBuffer.module.solver = SolverMode(g_useNewSolver)
        /\ g_resultBuffer.module.forAutocomplete = ~g_useNewSolver
        /\ g_resultBuffer.module.text = sources[MAIN]

\* C21 witness: the solver was switched to the old one after the entry module
\* had been checked under the new one; hover answered from the autocomplete
\* resolver while the other resolver still holds the new solver's module.
C21_Witness ==
    /\ HoverReturned
    /\ ~g_useNewSolver
    /\ g_resultBuffer.read = "moduleResolverForAutocomplete"
    /\ MAIN \in DOMAIN moduleResolver
    /\ moduleResolver[MAIN].solver = "New"
    /\ g_resultBuffer.module.solver = "Old"

\* The rendered lines of the print calls, joined by single newlines.
RECURSIVE JoinedLines(_)
JoinedLines(calls) ==
    IF Len(calls) = 0 THEN <<>>
    ELSE IF Len(calls) = 1 THEN printLine(calls[1])
    ELSE JoinedLines(PopBack(calls)) \o <<"\n">> \o printLine(calls[Len(calls)])

\* C22 (as claimed): after k print calls of one execution the transcript is
\* the k rendered lines joined by single newlines, one line per call, also
\* when a rendered line is empty.
C22_TranscriptJoinsLines ==
    (pc = "running" /\ ~escaped) => g_outputBuffer = JoinedLines(emitted)

\* The tables on the descent path at each table the serialization of v
\* descends into, in the order of the descent; path is the path to v.
RECURSIVE DescentPaths(_, _, _)
RECURSIVE DescentPathsOfPairs(_, _, _)
DescentPaths(h, v, path) ==
    IF v.type # "table" \/ InSeq(v.ref, path) THEN <<>>
    ELSE <<Append(path, v.ref)>>
            \o DescentPathsOfPairs(h, h[v.ref], Append(path, v.ref))

DescentPathsOfPairs(h, pairs, path) ==
    IF Len(pairs) = 0 THEN <<>>
    ELSE DescentPaths(h, pairs[1].v, path)
            \o DescentPathsOfPairs(h, Tail(pairs), path)

\* C23: for every argument of a print call the visited stack is empty when
\* the serialization of the argument starts and empty again when it returns,
\* and at every table it descends into the stack is the descent path to that
\* table; an argument serialized before leaves nothing behind.
C23_VisitedStackIsDescentPath ==
    (pc = "running" /\ ~escaped /\ Len(emitted) > 0) =>
        LET args == emitted[Len(emitted)]
        IN  /\ Len(seenStacks) = Len(args)
            /\ \A i \in 1..Len(args) :
                  /\ seenStacks[i].start = <<>>
                  /\ seenStacks[i].left = <<>>
                  /\ seenStacks[i].trace = DescentPaths(heap, args[i], <<>>)

\* C23 witness: table 1 holds the empty table 2 twice and was printed as both
\* arguments of one call; each serialization went 1, 1-2, 1-2 and left the
\* stack empty.
C23_Witness ==
    /\ pc = "running"
    /\ Len(emitted) > 0
    /\ emitted[Len(emitted)] = <<Tbl(1), Tbl(1)>>
    /\ 2 \in DOMAIN heap
    /\ Len(heap[2]) = 0
    /\ Len(seenStacks) = 2
    /\ \A i \in 1..2 :
          /\ seenStacks[i].trace = <<(<<1>>), <<1, 2>>, <<1, 2>>>>
          /\ seenStacks[i].left = <<>>

\* The string a non-finite number is emitted as.
NonFiniteText(v) ==
    IF v.cls = "nan" THEN <<"n", "a", "n">>
    ELSE IF v.num > 0 THEN <<"i", "n", "f">> ELSE <<"-", "i", "n", "f">>

\* C24 (as claimed): NaN and the infinities are emitted as the strings "nan",
\* "inf" and "-inf", as a number value and as a component of a vector; a
\* finite number is emitted as a numeric literal, as an integer when it is
\* integral-valued and as a decimal otherwise.
C24_NumberEncoding ==
    \A i \in 1..Len(g_printCalls) : \A j \in 1..Len(emitted[i]) :
        LET v   == emitted[i][j]
            out == g_printCalls[i][j]
        IN  /\ v.type = "number" =>
                 CASE v.cls \in {"nan", "inf"} ->
                        out = [type |-> "number", s |-> NonFiniteText(v)]
                   [] v.cls \in {"int", "huge"} -> DOMAIN out = {"type", "n"}
                   [] v.cls = "frac" -> DOMAIN out = {"type", "g"}
            /\ v.type = "vector" =>
                 \A c \in 1..Len(v.comps) :
                    IF v.comps[c].cls \in {"nan", "inf"}
                    THEN out.value[c] = [s |-> NonFiniteText(v.comps[c])]
                    ELSE DOMAIN out.value[c] = {"g"}

\* C29 (as claimed): in a table emitted as a key-to-value object no two
\* pairs stand under the same key string: distinct table keys (a number and a
\* string, two different numbers) give distinct object keys.
C29_DistinctObjectKeys ==
    \A i \in 1..Len(g_printCalls) : \A j \in 1..Len(emitted[i]) :
        LET out == g_printCalls[i][j]
        IN  (emitted[i][j].type = "table" /\ ~out.isArray) =>
                \A p, q \in 1..Len(out.members) :
                    p # q => out.members[p].key # out.members[q].key

\* luau_execute has returned the error of the script.
ReturnedScriptError ==
    Returned /\ ~g_resultBuffer.success /\ L.raised # NoError

\* C25 (as claimed): the message of an error value that is not a string is
\* "(error object is a <kind> value)" with the type name of the value; a
\* string error value is reported as its own text.
C25_NonStringErrorFallback ==
    ReturnedScriptError =>
        IF L.raised.type = "string"
        THEN g_resultBuffer.error.what = L.raised.what
        ELSE /\ g_resultBuffer.error.what = "(error object is a value)"
             /\ g_resultBuffer.error.kind = L.raised.type

\* The label the claim gives a frame: the function's name when known, else
\* "main chunk" for the top-level chunk, else "native function" for a
\* function of the host, else "?".
ClaimedLabel(frame) ==
    IF frame.name # NoName THEN "function"
    ELSE IF frame.kind = "main" THEN "main chunk"
    ELSE IF frame.kind = "host" THEN "native function"
    ELSE "?"

\* C26 (as claimed): the error string has one trace entry per frame of the
\* call stack, each with the one label of the priority name, "main chunk",
\* "native function", "?"; an error raised in a named function has an entry
\* that names the function.
C26_TraceLabels ==
    ReturnedScriptError =>
        LET trace == g_resultBuffer.error.trace
        IN  /\ Len(trace) = Len(L.stack)
            /\ \A i \in 1..Len(trace) :
                  /\ trace[i].label = ClaimedLabel(L.stack[i])
                  /\ trace[i].label = "function" => trace[i].name = L.stack[i].name
            /\ InSeq(NamedFrame, L.stack) =>
                  \E i \in 1..Len(trace) :
                      trace[i].label = "function" /\ trace[i].name = "f"

\* A diagnostics, autocomplete or hover request has returned a response.
QueryReturned ==
    /\ ~escaped
    /\ lastOp \in {"get_diagnostics", "autocomplete", "hover"}
    /\ g_resultBuffer.op = lastOp

\* The resolver whose modules the response was built from.
ResponseStore ==
    IF g_resultBuffer.op = "get_diagnostics" THEN moduleResolver
    ELSE IF g_resultBuffer.read = "moduleResolver" THEN moduleResolver
    ELSE moduleResolverForAutocomplete

\* The modules the requires of the registered text of name resolve to now.
CurrentRequires(name) ==
    LET paths == requiresOf(sources[name])
    IN  {findSource(sources, paths[i]).key :
            i \in {j \in 1..Len(paths) : findSource(sources, paths[j]).found}}

\* A module result is of the text registered now, of the mode and the solver
\* set now, and was linked to the modules its requires resolve to now.
UpToDate(module) ==
    /\ module.text = sources[module.name]
    /\ module.mode = configMode
    /\ module.solver = useNewLuauSolver
    /\ module.requires = CurrentRequires(module.name)

\* The modules a check of names is built from: names and, through the module
\* results of store, the modules they were linked to.
RECURSIVE ModulesUsed(_, _, _)
ModulesUsed(store, names, done) ==
    IF names \subseteq done THEN done
    ELSE LET n == CHOOSE x \in names \ done : TRUE
         IN  ModulesUsed(store,
                         names \cup (IF n \in DOMAIN store THEN store[n].requires
                                     ELSE {}),
                         done \cup {n})

\* C27 (as claimed): every module result a diagnostics, autocomplete or
\* hover response is built from (the entry module's and those of the modules
\* it is linked to) was computed under the mode, the solver and the source
\* texts current at the request.
C27_NoStaleResult ==
    QueryReturned =>
        /\ g_resultBuffer.module = ResponseStore[MAIN]
        /\ \A n \in ModulesUsed(ResponseStore, {MAIN}, {}) :
              n \in DOMAIN ResponseStore /\ UpToDate(ResponseStore[n])

\* The mode a setMode request asks for: an out-of-range number counts as
\* Nonstrict.
RequestedMode(arg) ==
    IF arg = 1 THEN "Strict" ELSE IF arg = 2 THEN "NoCheck" ELSE "Nonstrict"

\* C28: g_mode and g_useNewSolver are Nonstrict and the new solver until set,
\* every setMode and setSolver request sets them to what it asks for and no
\* other operation changes them; whenever the frontend exists, also when it
\* was constructed after the requests, the config resolver's mode is g_mode
\* and the frontend's solver selector and the global solver flag are
\* g_useNewSolver.
C28_ConfigurationConsistent ==
    /\ (g_mode = "Nonstrict" /\ g_useNewSolver = TRUE)
    /\ [][ /\ IF lastOp' = "set_mode"
              THEN g_mode' = RequestedMode(frontendCalls'[1].arg)
              ELSE g_mode' = g_mode
           /\ IF lastOp' = "set_solver"
              THEN g_useNewSolver' = frontendCalls'[1].arg
              ELSE g_useNewSolver' = g_useNewSolver
           /\ g_frontend' # 0 =>
                 /\ configMode' = g_mode'
                 /\ useNewLuauSolver' = SolverMode(g_useNewSolver')
                 /\ FFlagLuauSolverV2' = g_useNewSolver' ]_vars

\* C28 witness: strict mode and the old solver were requested before any
\* analysis request; the frontend constructed by the third operation has both.
C28_Witness ==
    /\ opCount = 3
    /\ lastOp = "set_source"
    /\ g_frontend = 1
    /\ configMode = "Strict"
    /\ useNewLuauSolver = "Old"
    /\ ~FFlagLuauSolverV2

=============================================================================
